---- MODULE Spec2Model ----
(***************************************************************************)
(* A model of PhotoDisarm's image browsing core:                           *)
(*   - the navigation loop of ImageViewer (core/image_viewer.py),          *)
(*   - the BackgroundProcessor (processing/background_processor.py) with   *)
(*     its worker thread, in-memory map and bounded ready-queue,           *)
(*   - the decoder's resize step and the disk decode cache                 *)
(*     (processing/image_processor.py).                                    *)
(* Each part has its own specification over the module's variables; the    *)
(* actions of one part leave the variables of the other parts unchanged.   *)
(***************************************************************************)
EXTENDS Integers, Sequences, FiniteSets, TLC

(***************************************************************************)
(* Bounds of the model.                                                    *)
(***************************************************************************)
\* number of files in the path list of the navigation model
NPaths == 13
\* chunk_size handed to ImageViewer.configure in the navigation model
NavChunkSize == 4
\* number of file moves (keep/delete with a move) in one navigation run
MaxMoves == 1
\* number of paths in the list handed to the BackgroundProcessor
NBPPaths == 4
\* chunk_size of the BackgroundProcessor's caller
BPChunkSize == 2
\* number of start() calls in one run (each starts one worker thread)
MaxStarts == 2
\* largest width and height of a source image and of a display target
MaxDim == 6
\* modification times a file can have
MaxMtime == 2
\* max_queue_size of the ready-queue (50 in the code, line 271; scaled down
\* with the chunk size, which the UI lets exceed it: its default is 100)
QueueMax == 1

(***************************************************************************)
(* Program constants.                                                      *)
(***************************************************************************)
\* deque(maxlen=10)
MaxHistory == 10

\* a failed decode: the None buffer
None == <<>>

VARIABLES
  \* ---- ImageViewer (navigation thread) ----
  image_paths,          \* self.image_paths: sequence of path strings
  current_image_index,  \* self.current_image_index (0-based, as in the code)
  history,              \* self.history: deque(maxlen=10), oldest first
  chunk_start,          \* process_images' local chunk_start
  chunk_end,            \* process_images' local chunk_end
  output_dir,           \* self.output_dir is set (TRUE) or empty/None (FALSE)
  navpc,                \* position of the navigation coroutine
  corrupt,              \* the files no decoder can read
  fileDate,             \* capture date of each file (0 = no date)
  nMoves,               \* file moves done so far (bounded by MaxMoves)
  \* ---- observers of the navigation run ----
  onlySkips,            \* no key other than a skip key was pressed so far
  prompts,              \* prompts shown while onlySkips
  skipStreak,           \* paths skipped consecutively since the last other key
  lastAct,              \* the last skip/keep/delete: its path, index and kind
  lastBack,             \* set by a Back that directly follows lastAct
  \* ---- BackgroundProcessor fields written by the navigation thread ----
  running,              \* self.running
  current_chunk,        \* self.current_chunk
  next_chunk,           \* self.next_chunk
  \* ---- BackgroundProcessor, its worker threads and its caller ----
  nef,                  \* the files whose name ends in .nef
  processed_images,     \* self.processed_images: path -> buffer
  image_queue,          \* self.image_queue: queue.Queue(maxsize), oldest first
  processing_thread,    \* self.processing_thread: the newest worker (0: None)
  workers,              \* every worker thread started: its position and locals
  cl,                   \* the calling (navigation) thread: its position and locals
  nStarts,              \* start() calls made so far
  caller,               \* what the calling thread does in this run: how many
                        \* start() calls, and whether it calls get_image
  \* ---- observers of the BackgroundProcessor run ----
  lastStarts,           \* chunk indexes of the last two start() calls returned
  getSince,             \* a get_image call was made since the last start()
  lastReturn,           \* path and buffer get_image has just returned
  \* ---- the decoder: resize and disk cache ----
  rz,                   \* a resize call: its arguments and the buffer returned
  st_mtime,             \* os.stat(path).st_mtime of each .nef file
  cache_files,          \* the files of CACHE_DIR: cache path -> pickled buffer
  stored,               \* observer: (path, mtime) -> the buffer stored for it
  touched,              \* observer: files written since their last store
  lastLookup,           \* observer: the last process_image call with use_cache
  \* ---- core/viewer.py: the key bindings and the key read ----
  save_key_code,        \* process_images' local save_key_code
  delete_key_code,      \* process_images' local delete_key_code
  key_pressed,          \* process_images' local key: what cv2.waitKeyEx(0)
                        \* returned last (0: nothing yet)
  \* ---- the directories the files are moved between ----
  disk,                 \* the files on disk: path -> the picture it holds
  lastMove,             \* observer: the last move, what it met and what it did
  \* ---- LocalizationService ----
  current_language_code,\* self._current_language_code
  lang_trail,           \* observer: the codes current before the last two
                        \* switch_language calls
  last_text,            \* observer: what get_text returned last
  \* ---- _process_chunk called on its own (tests/test_image_processing.py) ----
  backRun               \* observer: the cursor the call started with, whether
                        \* the history was cleared, the left arrows handled

navVars == <<image_paths, current_image_index, history, chunk_start, chunk_end,
             output_dir, navpc, corrupt, fileDate, nMoves,
             onlySkips, prompts, skipStreak, lastAct, lastBack>>
navOnly == <<image_paths, current_image_index, history, chunk_start, chunk_end,
             output_dir, navpc, fileDate, nMoves,
             onlySkips, prompts, skipStreak, lastAct, lastBack>>
winVars == <<running, current_chunk, next_chunk>>
bpVars == <<nef, processed_images, image_queue, processing_thread, workers, cl,
            nStarts, caller, lastStarts, getSince, lastReturn>>
decVars == <<rz, st_mtime, cache_files, stored, touched, lastLookup>>
keyVars == <<save_key_code, delete_key_code, key_pressed>>
moveVars == <<disk, lastMove>>
langVars == <<current_language_code, lang_trail, last_text>>
sideVars == <<moveVars, langVars, backRun>>
bpOnly == <<bpVars, decVars, keyVars, sideVars>>
vars == <<navVars, winVars, bpOnly>>

(***************************************************************************)
(* Paths.  A path string is modelled by <<file, dir, n>>: the file it      *)
(* names, the directory it lies in ("in": the input directory, "kept":     *)
(* <output_dir>/<Year>/<Mon>, "del": <output_dir>/Deleted) and the number   *)
(* of "_1" suffixes the collision handling has appended to its base name.  *)
(***************************************************************************)
Files == 1..NPaths
PathOf(f) == <<f, "in", 0>>
FileOf(p) == p[1]

Min(a, b) == IF a < b THEN a ELSE b
Max(a, b) == IF a > b THEN a ELSE b

\* Python's list slice l[a:b] on a 0-based list held as a 1-based sequence
Slice(l, a, b) == SubSeq(l, a + 1, Min(b, Len(l)))

Range(s) == {s[i] : i \in 1..Len(s)}

\* dicts: the empty one, d[k] = v, and the restriction to some keys
EmptyMap == [x \in {} |-> <<>>]
MapPut(m, k, v) == [x \in DOMAIN m \cup {k} |-> IF x = k THEN v ELSE m[x]]
MapKeep(m, keys) == [x \in DOMAIN m \cap keys |-> m[x]]

\* the last n elements of s (all of s when it is shorter)
LastN(s, n) == SubSeq(s, Max(1, Len(s) - n + 1), Len(s))

\* list.index(x): the 0-based index of the first occurrence, -1 for ValueError
IndexOf(l, x) ==
  IF \E i \in 1..Len(l) : l[i] = x
  THEN (CHOOSE i \in 1..Len(l) : l[i] = x /\ \A j \in 1..(i - 1) : l[j] # x) - 1
  ELSE -1

(***************************************************************************)
(* collections.deque(maxlen=10).append: a full deque drops its oldest      *)
(* entry.                                                                  *)
(***************************************************************************)
NoDropAppend(h, p) == Append(h, p)

DequeAppend(h, p) ==
  IF Len(h) >= MaxHistory THEN Append(Tail(h), p) ELSE Append(h, p)

\* a pop at the wrong end: removes the oldest entry
DequePopOldest(h) == Tail(h)

\* deque.pop(): removes the newest entry
DequePop(h) == SubSeq(h, 1, Len(h) - 1)
DequeTop(h) == h[Len(h)]

(***************************************************************************)
(* sort_images_by_date: a stable sort on (date is None, date).             *)
(***************************************************************************)
DateKey(p) == IF fileDate[FileOf(p)] = 0 THEN 1000 ELSE fileDate[FileOf(p)]

RECURSIVE InsertSorted(_, _)
InsertSorted(s, p) ==
  IF s = <<>> THEN <<p>>
  ELSE IF DateKey(s[Len(s)]) <= DateKey(p) THEN Append(s, p)
  ELSE Append(InsertSorted(SubSeq(s, 1, Len(s) - 1), p), s[Len(s)])

RECURSIVE sort_images_by_date(_)
sort_images_by_date(s) ==
  IF s = <<>> THEN <<>>
  ELSE InsertSorted(sort_images_by_date(SubSeq(s, 1, Len(s) - 1)), s[Len(s)])

\* image_paths[a:b] = chunk  (same length)
AssignSlice(l, a, chunk) ==
  [i \in 1..Len(l) |->
     IF i > a /\ i <= a + Len(chunk) THEN chunk[i - a] ELSE l[i]]

(***************************************************************************)
(* The decoder's resize.  A buffer is described by its shape and by the    *)
(* rectangle of it that holds the scaled picture; what lies outside the    *)
(* rectangle is zero (black).  The quotients the code takes in floating    *)
(* point and truncates with int() are taken exactly here.                  *)
(***************************************************************************)
Buffer(rows, cols, top, left, crows, ccols) ==
  [ok |-> TRUE, rows |-> rows, cols |-> cols, top |-> top, left |-> left,
   crows |-> crows, ccols |-> ccols]

\* cv2.resize raises for an empty target size
ResizeError ==
  [ok |-> FALSE, rows |-> 0, cols |-> 0, top |-> 0, left |-> 0,
   crows |-> 0, ccols |-> 0]

\* cv2.resize(image, (new_width, new_height)): the picture alone
cv2_resize(new_width, new_height) ==
  IF new_width <= 0 \/ new_height <= 0 THEN ResizeError
  ELSE Buffer(new_height, new_width, 0, 0, new_height, new_width)

\* image_processor.resize_image_to_fit
resize_image_to_fit(width, height, max_width, max_height) ==
  IF width * max_height > max_width * height      \* aspect > target_aspect
  THEN cv2_resize(max_width, (max_width * height) \div width)
  ELSE cv2_resize((max_height * width) \div height, max_height)

\* canvas.resize_image
resize_image(w, h, max_width, max_height) ==
  LET new_width1 == IF w > h THEN Min(w, max_width)
                    ELSE (Min(h, max_height) * w) \div h
      new_height1 == IF w > h THEN (Min(w, max_width) * h) \div w
                     ELSE Min(h, max_height)
      exceeds == new_width1 > max_width \/ new_height1 > max_height
      \* scale_factor = min(max_width / w, max_height / h)
      byWidth == max_width * h <= max_height * w
      new_width == IF ~exceeds THEN new_width1
                   ELSE IF byWidth THEN max_width ELSE (w * max_height) \div h
      new_height == IF ~exceeds THEN new_height1
                    ELSE IF byWidth THEN (h * max_width) \div w ELSE max_height
  IN IF ~cv2_resize(new_width, new_height).ok THEN ResizeError
     ELSE Buffer(max_height, max_width,
                 (max_height - new_height) \div 2, (max_width - new_width) \div 2,
                 new_height, new_width)

Dims == 1..MaxDim
NoResize == [fn |-> "none", w |-> 1, h |-> 1, max_width |-> 1, max_height |-> 1,
             out |-> ResizeError]

\* the variables the resize leaves alone
rzFrame == <<navVars, winVars, bpVars, st_mtime, cache_files, stored, touched,
            lastLookup, keyVars, sideVars>>

\* process_image (image_processor.py line 125) resizes the decoded image
CallResizeToFit ==
  /\ rz.fn = "none"
  /\ rz' = [rz EXCEPT !.fn = "resize_image_to_fit",
                      !.out = resize_image_to_fit(rz.w, rz.h, rz.max_width,
                                                  rz.max_height)]
  /\ UNCHANGED rzFrame

\* process_image (image.py lines 86, 99) resizes the decoded image
CallResizeImage ==
  /\ rz.fn = "none"
  /\ rz' = [rz EXCEPT !.fn = "resize_image",
                      !.out = resize_image(rz.w, rz.h, rz.max_width,
                                           rz.max_height)]
  /\ UNCHANGED rzFrame

(***************************************************************************)
(* The disk cache of process_image (image_processor.py).  A path string is *)
(* a sequence of pieces of text, a modification time a whole number of     *)
(* seconds.  Two digests are equal only if their inputs are (md5 is taken  *)
(* to be free of collisions).                                              *)
(***************************************************************************)
CachePaths == { <<"a", ".nef">>, <<"a", ".nef", "_", "1", ".0", ".nef">> }
\* the same with a file that is not a .nef
DecodePaths == CachePaths \cup { <<"b", ".jpg">> }
Mtimes == 1..MaxMtime

\* the size of a decoded .nef picture, and the display sizes of a run
RawSize == [w |-> 4, h |-> 2]
Targets == { [max_width |-> 4, max_height |-> 4],
             [max_width |-> 2, max_height |-> 2] }

\* f"{file_path}_{file_stat.st_mtime}"
hash_input(file_path, mtime) == file_path \o <<"_", ToString(mtime), ".0">>
md5(text) == <<"md5", text>>

\* a cache path that leaves the modification time out
path_only_cache_path(file_path, mtime) == <<"cache", md5(file_path), ".pkl">>

\* get_cache_path for a file with the given st_mtime
get_cache_path(file_path, mtime) ==
  <<"cache", md5(hash_input(file_path, mtime)), ".pkl">>

\* pickle.dump / pickle.load of a buffer; pickle.load raises on a file that
\* is no pickle
pickle_dump(image_data) == <<"pickle", image_data>>
pickle_load(bytes) == bytes[2]
Unpickles(bytes) == bytes[1] = "pickle"
Garbage == <<"garbage">>

\* the pixels of a buffer: which file and which version of it they show, and
\* their shape
Pixels(path, ver, shape) == [src |-> path, ver |-> ver, shape |-> shape]
NoPixels == Pixels(<<>>, 0, ResizeError)
\* in place of a buffer: an exception on its way to the caller
Raised == Pixels(<<"raised">>, 0, ResizeError)

\* the last process_image call: its arguments, what it found (hit: the
\* buffer came from the cache; known: a buffer was stored for the path under
\* its modification time; bad_entry: the cache file was there and could not
\* be read; unreadable: the file is missing or cannot be decoded) and what it
\* returned
NoLookup == [called |-> FALSE, done |-> FALSE, path |-> <<>>, mtime |-> 0,
             max_width |-> 0, max_height |-> 0, use_cache |-> FALSE,
             hit |-> FALSE, known |-> FALSE, touched |-> FALSE,
             bad_entry |-> FALSE, unreadable |-> FALSE, out |-> NoPixels]

\* path.lower().endswith('.nef')
EndsWithNef(path) == path[Len(path)] = ".nef"

\* os.stat(file_path) raises: there is no such file
StatFails(path) == st_mtime[path] = 0

\* rawpy.imread raises, cv2.imread returns None: the file is missing or is
\* not an image the decoder can read
Unreadable(path) == path \in corrupt \/ StatFails(path)

\* a read error of the cache file that is passed on
CacheLoadRaises(e) == Raised

\* lines 84-85: "except Exception as e: print(...)", on to the decode
CacheLoadExcept(e) == NoPixels

\* no handler: the exception goes to the caller
NoOuterExcept(result) == result

\* lines 142-144: "except Exception as e: ... return path, None"
OuterExcept(result) == IF result = Raised THEN NoPixels ELSE result

\* lines 74-85: the cached buffer, resized when it is larger than the display
\* size; None (here NoPixels) when there is no usable cache file
CacheLookup(path, max_width, max_height) ==
  LET cache_path == get_cache_path(path, st_mtime[path])
  IN IF cache_path \notin DOMAIN cache_files THEN NoPixels
     ELSE IF ~Unpickles(cache_files[cache_path]) THEN CacheLoadExcept(Raised)
     ELSE LET image_data == pickle_load(cache_files[cache_path])
              h == image_data.shape.rows
              w == image_data.shape.cols
          IN IF h > max_height \/ w > max_width
             THEN LET r == resize_image_to_fit(w, h, max_width, max_height)
                  IN IF r.ok THEN [image_data EXCEPT !.shape = r] ELSE NoPixels
             ELSE image_data

\* lines 87-125: the .nef file decoded and resized; rawpy.imread and
\* cv2.resize raise
DecodeNef(path, max_width, max_height) ==
  LET r == resize_image_to_fit(RawSize.w, RawSize.h, max_width, max_height)
  IN IF Unreadable(path) THEN Raised
     ELSE IF r.ok THEN Pixels(path, st_mtime[path], r) ELSE Raised

\* lines 117-125: any other file; cv2.imread returns None for a file it
\* cannot read
ReadImage(path, max_width, max_height) ==
  LET r == resize_image_to_fit(RawSize.w, RawSize.h, max_width, max_height)
  IN IF Unreadable(path) THEN NoPixels
     ELSE IF r.ok THEN Pixels(path, st_mtime[path], r) ELSE Raised

\* line 73: get_cache_path raises when os.stat does
KeyFails(path, use_cache) == EndsWithNef(path) /\ use_cache /\ StatFails(path)

\* lines 74-85: the cache file of the path exists and cannot be unpickled
BadEntry(path, use_cache) ==
  /\ EndsWithNef(path) /\ use_cache /\ ~StatFails(path)
  /\ get_cache_path(path, st_mtime[path]) \in DOMAIN cache_files
  /\ ~Unpickles(cache_files[get_cache_path(path, st_mtime[path])])

\* lines 66-140: the body of the try block, what it returns or Raised
TryBody(path, max_width, max_height, use_cache) ==
  IF EndsWithNef(path)
  THEN IF KeyFails(path, use_cache) THEN Raised
       ELSE LET cached == IF use_cache
                          THEN CacheLookup(path, max_width, max_height)
                          ELSE NoPixels
            IN IF cached # NoPixels THEN cached
               ELSE DecodeNef(path, max_width, max_height)
  ELSE ReadImage(path, max_width, max_height)

\* the variables process_image leaves alone
cacheFrame == <<navVars, winVars, bpVars, rz, keyVars, sideVars>>

\* process_image(path, max_width, max_height, use_cache) for a .nef path,
\* lines 65-144
ProcessImage(path, max_width, max_height, use_cache) ==
  LET looks == EndsWithNef(path) /\ use_cache /\ ~StatFails(path)
      hit == looks /\ CacheLookup(path, max_width, max_height)
                       \notin {NoPixels, Raised}
      body == TryBody(path, max_width, max_height, use_cache)
      image_data == OuterExcept(body)
      store == looks /\ ~hit /\ body \notin {NoPixels, Raised}
      cache_path == get_cache_path(path, st_mtime[path])
  IN /\ cache_files' = IF store
                       THEN MapPut(cache_files, cache_path, pickle_dump(image_data))
                       ELSE cache_files
     /\ stored' = IF store
                  THEN MapPut(stored, <<path, st_mtime[path]>>, image_data)
                  ELSE stored
     /\ lastLookup' = [called |-> TRUE,
                       done |-> use_cache /\ EndsWithNef(path),
                       path |-> path, mtime |-> st_mtime[path],
                       max_width |-> max_width, max_height |-> max_height,
                       use_cache |-> use_cache,
                       hit |-> hit,
                       known |-> <<path, st_mtime[path]>> \in DOMAIN stored,
                       touched |-> path \in touched,
                       bad_entry |-> BadEntry(path, use_cache),
                       unreadable |-> Unreadable(path),
                       out |-> image_data]
     /\ touched' = IF store THEN touched \ {path} ELSE touched
     /\ UNCHANGED <<cacheFrame, st_mtime>>

\* the file is written again: its modification time changes
TouchFile(path) ==
  /\ \E m \in Mtimes \ {st_mtime[path]} : st_mtime' = [st_mtime EXCEPT ![path] = m]
  /\ touched' = touched \cup {path}
  /\ lastLookup' = NoLookup
  /\ UNCHANGED <<cacheFrame, cache_files, stored>>

\* the file is deleted
RemoveFile(path) ==
  /\ ~StatFails(path)
  /\ st_mtime' = [st_mtime EXCEPT ![path] = 0]
  /\ touched' = touched \cup {path}
  /\ lastLookup' = NoLookup
  /\ UNCHANGED <<cacheFrame, cache_files, stored>>

\* a file of CACHE_DIR is damaged (cut short, overwritten)
DamageCacheFile(cache_path) ==
  /\ cache_path \in DOMAIN cache_files
  /\ Unpickles(cache_files[cache_path])
  /\ cache_files' = [cache_files EXCEPT ![cache_path] = Garbage]
  /\ lastLookup' = NoLookup
  /\ UNCHANGED <<cacheFrame, st_mtime, stored, touched>>

\* resize and cache are not in use
DecoderIdle ==
  /\ rz = NoResize
  /\ st_mtime = [p \in DecodePaths |-> 1]
  /\ cache_files = EmptyMap
  /\ stored = EmptyMap
  /\ touched = {}
  /\ lastLookup = NoLookup

(***************************************************************************)
(* BackgroundProcessor.start's choice of the next chunk.                   *)
(***************************************************************************)
\* a next chunk cut at the current chunk's own index
NextChunkAtOwnIndex(all_paths, current_chunk_idx, cs) ==
  Slice(all_paths, current_chunk_idx * cs,
        Min(current_chunk_idx * cs + cs, Len(all_paths)))

\* background_processor.py lines 75-81
NextChunkOf(all_paths, current_chunk_idx, cs) ==
  IF Len(all_paths) > (current_chunk_idx + 1) * cs
  THEN Slice(all_paths, (current_chunk_idx + 1) * cs,
             Min((current_chunk_idx + 1) * cs + cs, Len(all_paths)))
  ELSE <<>>

(***************************************************************************)
(* The decoder seen from the navigation thread: get_image(path) hands back *)
(* a buffer for a path whose file decodes and None for one that does not   *)
(* (BackgroundProcessor.get_image; its interplay with the worker is the    *)
(* subject of the specification Spec below).                               *)
(***************************************************************************)
Decodable(p) == FileOf(p) \notin corrupt

AlwaysAnImage(p) == <<"img", p>>

NavGetImage(p) == IF Decodable(p) THEN <<"img", p>> ELSE None

(***************************************************************************)
(* The file moves of keep and delete.  Base names are distinct, so the     *)
(* only name a move can collide with is the file's own current one.        *)
(***************************************************************************)
\* move_image_to_dir_with_date: the new path under <output_dir>/<Year>/<Mon>
KeptPath(p) == IF p[2] = "kept" THEN <<p[1], "kept", p[3] + 1>>
                                ELSE <<p[1], "kept", p[3]>>

\* _handle_delete_action: the new path under <output_dir>/Deleted
DeletedPath(p) == IF p[2] = "del" THEN <<p[1], "del", p[3] + 1>>
                                  ELSE <<p[1], "del", p[3]>>

(***************************************************************************)
(* Key codes (cv2.waitKeyEx) and their dispatch in _process_chunk.         *)
(***************************************************************************)
LeftKeys == {81, 2424832, 37, 65361}
SaveKeys == {32}
DeleteKeys == {8}
QuitKeys == {27, -1}
\* the right arrow and one key with no binding
OtherKeys == {65363, 100}

CurrentPath == image_paths[current_image_index + 1]

\* the keys of image_viewer.py (space, backspace), no key read yet
DefaultKeys ==
  /\ save_key_code = 32
  /\ delete_key_code = 8
  /\ key_pressed = 0

\* no file is moved outside the navigation model's own path list, and the
\* LocalizationService is as constructed (localization.py lines 134-136)
NoMove == [by |-> "none", src |-> <<>>, dst |-> <<>>, clash |-> FALSE,
           free |-> FALSE, lost |-> {}]
DANISH == "da"
ENGLISH == "en"
LangIdle ==
  /\ current_language_code = DANISH
  /\ lang_trail = <<>>
  /\ last_text = <<>>
NoRun == [from |-> 0, cleared |-> FALSE, n |-> 0]
SideIdle ==
  /\ disk = EmptyMap
  /\ lastMove = NoMove
  /\ LangIdle
  /\ backRun = NoRun

NoAct == [kind |-> "none", path |-> <<0, "in", 0>>, idx |-> 0, gap |-> FALSE]

\* every step that is not a Back forgets the last Back
Observe(act, streak, only) ==
  /\ lastAct' = act
  /\ lastBack' = NoAct
  /\ skipStreak' = streak
  /\ onlySkips' = only
  /\ prompts' = IF only THEN prompts ELSE 0

(***************************************************************************)
(* ImageViewer.process_images, lines 97-129: the head of the chunk loop.   *)
(* Sorts the chunk of the cursor in place and restarts the background      *)
(* processor for it.                                                       *)
(***************************************************************************)
NavChunkStart ==
  /\ navpc = "loop"
  /\ current_image_index < Len(image_paths)
  /\ LET cs == (current_image_index \div NavChunkSize) * NavChunkSize
         ce == Min(cs + NavChunkSize, Len(image_paths))
         chunk_paths == sort_images_by_date(Slice(image_paths, cs, ce))
         all_paths == AssignSlice(image_paths, cs, chunk_paths)
     IN /\ chunk_start' = cs
        /\ chunk_end' = ce
        /\ image_paths' = all_paths
        /\ current_chunk' = chunk_paths
        /\ next_chunk' = NextChunkOf(all_paths, cs \div NavChunkSize, NavChunkSize)
        /\ running' = TRUE
  /\ navpc' = "chunk"
  /\ lastBack' = NoAct
  /\ UNCHANGED <<current_image_index, history, output_dir, corrupt, fileDate,
                 nMoves, onlySkips, prompts, skipStreak, lastAct>>
  /\ UNCHANGED bpOnly

(***************************************************************************)
(* process_images, lines 136-140: all chunks processed.                    *)
(***************************************************************************)
NavFinish ==
  /\ navpc = "loop"
  /\ current_image_index >= Len(image_paths)
  /\ running' = FALSE
  /\ navpc' = "done"
  /\ lastBack' = NoAct
  /\ UNCHANGED <<image_paths, current_image_index, history, chunk_start,
                 chunk_end, output_dir, corrupt, fileDate, nMoves, onlySkips,
                 prompts, skipStreak, lastAct, current_chunk, next_chunk>>
  /\ UNCHANGED bpOnly

InChunk == /\ current_image_index < chunk_end
           /\ current_image_index < Len(image_paths)

(***************************************************************************)
(* _process_chunk, line 154 and 203: the chunk's loop ends.                *)
(***************************************************************************)
NavChunkReturn ==
  /\ navpc = "chunk"
  /\ ~InChunk
  /\ navpc' = "loop"
  /\ lastBack' = NoAct
  /\ UNCHANGED <<image_paths, current_image_index, history, chunk_start,
                 chunk_end, output_dir, corrupt, fileDate, nMoves, onlySkips,
                 prompts, skipStreak, lastAct, winVars>>
  /\ UNCHANGED bpOnly

(***************************************************************************)
(* _process_chunk, lines 155-175: get_image gave None; the slot is passed. *)
(***************************************************************************)
\* a viewer that prompts for a slot without a buffer
NavPromptUnreadable ==
  /\ navpc = "chunk"
  /\ InChunk
  /\ NavGetImage(CurrentPath) = None
  /\ navpc' = "wait"
  /\ lastBack' = NoAct
  /\ UNCHANGED <<image_paths, current_image_index, history, chunk_start,
                 chunk_end, output_dir, corrupt, fileDate, nMoves, onlySkips,
                 prompts, skipStreak, lastAct, winVars>>
  /\ UNCHANGED bpOnly

\* lines 164-175: get_image returned None, the slot is passed
NavSkipUnreadable ==
  /\ navpc = "chunk"
  /\ InChunk
  /\ NavGetImage(CurrentPath) = None
  /\ current_image_index' = current_image_index + 1
  /\ lastAct' = IF lastAct = NoAct THEN NoAct ELSE [lastAct EXCEPT !.gap = TRUE]
  /\ lastBack' = NoAct
  /\ UNCHANGED <<image_paths, history, chunk_start, chunk_end, output_dir,
                 navpc, corrupt, fileDate, nMoves, onlySkips, prompts,
                 skipStreak, winVars>>
  /\ UNCHANGED bpOnly

(***************************************************************************)
(* _process_chunk, lines 155-182: the image is shown and the loop blocks   *)
(* in waitKeyEx.                                                           *)
(***************************************************************************)
NavShow ==
  /\ navpc = "chunk"
  /\ InChunk
  /\ NavGetImage(CurrentPath) # None
  /\ navpc' = "wait"
  /\ prompts' = IF onlySkips THEN prompts + 1 ELSE 0
  /\ lastBack' = NoAct
  /\ UNCHANGED <<image_paths, current_image_index, history, chunk_start,
                 chunk_end, output_dir, corrupt, fileDate, nMoves, onlySkips,
                 skipStreak, lastAct, winVars>>
  /\ UNCHANGED bpOnly

(***************************************************************************)
(* _handle_back_action, lines 281-308, as called from _process_chunk       *)
(* lines 186-189.  The result is the new cursor and whether the chunk      *)
(* processing restarts.                                                    *)
(***************************************************************************)
BackIndex == IndexOf(image_paths, DequeTop(history))

\* a Back that steps back by one when there is nothing to undo
BackCursorStepsOnEmpty ==
  IF Len(history) > 0 /\ BackIndex >= 0 THEN BackIndex
  ELSE IF current_image_index > 0 THEN current_image_index - 1
  ELSE current_image_index

BackCursor ==
  IF Len(history) = 0 THEN current_image_index
  ELSE IF BackIndex >= 0 THEN BackIndex
  ELSE IF current_image_index > 0 THEN current_image_index - 1
  ELSE current_image_index

BackRestarts ==
  /\ Len(history) > 0
  /\ BackIndex >= 0
  /\ BackIndex < (current_image_index \div NavChunkSize) * NavChunkSize

\* what a left arrow does to the viewer
NavBackStep ==
  /\ navpc = "wait"
  /\ \E key \in LeftKeys :
       /\ history' = IF Len(history) > 0 THEN DequePop(history) ELSE history
       /\ current_image_index' = BackCursor
       /\ navpc' = IF BackRestarts THEN "loop" ELSE "chunk"
  /\ lastBack' = lastAct
  /\ lastAct' = NoAct
  /\ skipStreak' = <<>>
  /\ onlySkips' = FALSE
  /\ prompts' = 0
  /\ UNCHANGED <<image_paths, chunk_start, chunk_end, output_dir, corrupt,
                 fileDate, nMoves, winVars>>

NavBack ==
  /\ NavBackStep
  /\ UNCHANGED bpOnly

(***************************************************************************)
(* _process_chunk, lines 198-201: any other key skips the image.           *)
(***************************************************************************)
NavSkip ==
  /\ navpc = "wait"
  /\ \E key \in OtherKeys :
       /\ history' = DequeAppend(history, CurrentPath)
       /\ current_image_index' = current_image_index + 1
  /\ navpc' = "chunk"
  /\ Observe([kind |-> "skip", path |-> CurrentPath,
              idx |-> current_image_index, gap |-> FALSE],
             Append(skipStreak, CurrentPath), onlySkips)
  /\ UNCHANGED <<image_paths, chunk_start, chunk_end, output_dir, corrupt,
                 fileDate, nMoves, winVars>>
  /\ UNCHANGED bpOnly

(***************************************************************************)
(* _handle_save_action, lines 310-322 (key 32).  With no output_dir the    *)
(* file stays where it is.                                                 *)
(***************************************************************************)
NavSave ==
  /\ navpc = "wait"
  /\ \E key \in SaveKeys :
       /\ history' = DequeAppend(history, CurrentPath)
       /\ IF output_dir
          THEN /\ nMoves < MaxMoves
               /\ image_paths' = [image_paths EXCEPT
                                    ![current_image_index + 1] = KeptPath(CurrentPath)]
               /\ nMoves' = nMoves + 1
          ELSE UNCHANGED <<image_paths, nMoves>>
       /\ current_image_index' = current_image_index + 1
  /\ navpc' = "chunk"
  /\ Observe([kind |-> "keep", path |-> CurrentPath,
              idx |-> current_image_index, gap |-> FALSE], <<>>, FALSE)
  /\ UNCHANGED <<chunk_start, chunk_end, output_dir, corrupt, fileDate, winVars>>
  /\ UNCHANGED bpOnly

(***************************************************************************)
(* _handle_delete_action, lines 324-350 (key 8).                           *)
(***************************************************************************)
NavDelete ==
  /\ navpc = "wait"
  /\ nMoves < MaxMoves
  /\ \E key \in DeleteKeys :
       /\ history' = DequeAppend(history, CurrentPath)
       /\ image_paths' = [image_paths EXCEPT
                            ![current_image_index + 1] = DeletedPath(CurrentPath)]
       /\ current_image_index' = current_image_index + 1
  /\ nMoves' = nMoves + 1
  /\ navpc' = "chunk"
  /\ Observe([kind |-> "delete", path |-> CurrentPath,
              idx |-> current_image_index, gap |-> FALSE], <<>>, FALSE)
  /\ UNCHANGED <<chunk_start, chunk_end, output_dir, corrupt, fileDate, winVars>>
  /\ UNCHANGED bpOnly

(***************************************************************************)
(* The move of a keep or delete raises (shutil.move, os.makedirs): the     *)
(* path is in the history already (lines 317, 331), the exception leaves   *)
(* _process_chunk and process_images, and line 137 is never reached.       *)
(***************************************************************************)
NavMoveFails ==
  /\ navpc = "wait"
  /\ \E key \in SaveKeys \cup DeleteKeys :
       /\ key \in SaveKeys => output_dir
       /\ history' = DequeAppend(history, CurrentPath)
  /\ navpc' = "crashed"
  /\ Observe(NoAct, <<>>, FALSE)
  /\ UNCHANGED <<image_paths, current_image_index, chunk_start, chunk_end,
                 output_dir, corrupt, fileDate, nMoves, winVars>>
  /\ UNCHANGED bpOnly

(***************************************************************************)
(* _process_chunk, lines 194-197 and process_images, lines 133-140: Esc.   *)
(***************************************************************************)
\* a quit that leaves the BackgroundProcessor running
NavQuitNoStop ==
  /\ navpc = "wait"
  /\ \E key \in QuitKeys : navpc' = "aborted"
  /\ Observe(NoAct, <<>>, FALSE)
  /\ UNCHANGED <<image_paths, current_image_index, history, chunk_start,
                 chunk_end, output_dir, corrupt, fileDate, nMoves, winVars>>
  /\ UNCHANGED bpOnly

NavQuit ==
  /\ navpc = "wait"
  /\ \E key \in QuitKeys :
       /\ running' = FALSE
       /\ navpc' = "aborted"
  /\ Observe(NoAct, <<>>, FALSE)
  /\ UNCHANGED <<image_paths, current_image_index, history, chunk_start,
                 chunk_end, output_dir, corrupt, fileDate, nMoves,
                 current_chunk, next_chunk>>
  /\ UNCHANGED bpOnly

(***************************************************************************)
(* The state when process_images is entered (lines 86-90) with the list    *)
(* the enumerator built, and the BackgroundProcessor as constructed.       *)
(***************************************************************************)
\* The directories the model browses: the undecodable files (none, the
\* first, an inner one, the last, two in a row across a chunk boundary), the
\* files whose capture date is a day late, and whether output_dir is set.
Scenarios ==
  { [bad |-> {},      late |-> {},  out |-> TRUE],
    [bad |-> {1},     late |-> {},  out |-> TRUE],
    [bad |-> {3},     late |-> {1}, out |-> TRUE],
    [bad |-> {NPaths}, late |-> {}, out |-> TRUE],
    [bad |-> {NavChunkSize, NavChunkSize + 1}, late |-> {}, out |-> TRUE],
    [bad |-> {},      late |-> {1}, out |-> FALSE],
    [bad |-> {3},     late |-> {},  out |-> FALSE],
    [bad |-> {},      late |-> {NavChunkSize + 1}, out |-> TRUE] }

NavInit ==
  /\ image_paths = [i \in 1..NPaths |-> PathOf(i)]
  /\ current_image_index = 0
  /\ history = <<>>
  /\ chunk_start = 0
  /\ chunk_end = 0
  /\ \E sc \in Scenarios :
       /\ output_dir = sc.out
       /\ corrupt = sc.bad
       /\ fileDate = [f \in Files |-> IF f \in sc.late THEN 2 ELSE 1]
  /\ navpc = "loop"
  /\ nMoves = 0
  /\ onlySkips = TRUE
  /\ prompts = 0
  /\ skipStreak = <<>>
  /\ lastAct = NoAct
  /\ lastBack = NoAct
  /\ running = FALSE
  /\ current_chunk = <<>>
  /\ next_chunk = <<>>
  /\ nef = {}
  /\ processed_images = <<>>
  /\ image_queue = <<>>
  /\ processing_thread = 0
  /\ workers = <<>>
  /\ cl = [pc |-> "ready", op |-> "none", idx |-> 0, path |-> <<0, "in", 0>>,
           temp |-> <<>>, found |-> FALSE, found_data |-> <<>>]
  /\ nStarts = 0
  /\ caller = [starts |-> 0, gets |-> FALSE]
  /\ lastStarts = <<>>
  /\ getSince = FALSE
  /\ lastReturn = [path |-> <<0, "in", 0>>, img |-> <<>>, via |-> "none",
                   stops |-> 0]
  /\ DecoderIdle
  /\ DefaultKeys
  /\ SideIdle

NavNext ==
  \/ NavChunkStart
  \/ NavFinish
  \/ NavChunkReturn
  \/ NavSkipUnreadable
  \/ NavShow
  \/ NavBack
  \/ NavSkip
  \/ NavSave
  \/ NavDelete
  \/ NavMoveFails
  \/ NavQuit

SpecNav == NavInit /\ [][NavNext]_vars

(***************************************************************************)
(* The BackgroundProcessor (processing/background_processor.py), its       *)
(* worker threads and its caller.  The caller is the navigation thread     *)
(* reduced to the calls it makes: start() for any chunk of a fixed path    *)
(* list, stop(), and get_image() for any path of the list.                 *)
(***************************************************************************)
BPAllPaths == [i \in 1..NBPPaths |-> PathOf(i)]
BPChunks == 0..((NBPPaths - 1) \div BPChunkSize)
ChunkOf(i) == Slice(BPAllPaths, i * BPChunkSize,
                    Min(i * BPChunkSize + BPChunkSize, NBPPaths))

NoPath == <<0, "in", 0>>

\* a decode that never yields a buffer
NeverDecodes(p) == None

\* process_image: the decoded buffer of the path, None when it cannot be read
process_image(p) == IF FileOf(p) \in corrupt THEN None ELSE <<"img", p>>

\* img_path.lower().endswith('.nef')
IsNef(p) == FileOf(p) \in nef

\* [p for p in chunk if p not in self.processed_images]
Unprocessed(chunk) == SelectSeq(chunk, LAMBDA p : p \notin DOMAIN processed_images)

\* lines 198 and 232: the first unprocessed path is taken only if it is a
\* .nef or no .nef is unprocessed
NefFirst(unprocessed) ==
  \/ IsNef(unprocessed[1])
  \/ \A i \in 1..Len(unprocessed) : ~IsNef(unprocessed[i])

ClIdle == [pc |-> "ready", op |-> "none", idx |-> 0, path |-> NoPath,
           temp |-> <<>>, found |-> FALSE, found_data |-> <<>>]

NewWorker == [pc |-> "loop", path |-> NoPath, kind |-> "none", cycled |-> FALSE]
\* a worker back at the head of its loop, having run at least once
Looping == [NewWorker EXCEPT !.cycled = TRUE]

\* the navigation model's variables, which the BackgroundProcessor leaves alone
bpFrame == <<navOnly, corrupt, caller, decVars, keyVars, sideVars>>

(***************************************************************************)
(* The worker thread, _process_images (lines 179-267).                     *)
(***************************************************************************)
\* line 186: the loop ends when running is false
WorkerExit(t) ==
  /\ workers[t].pc = "loop"
  /\ ~running
  /\ workers' = [workers EXCEPT ![t] = [NewWorker EXCEPT !.pc = "exited",
                                                      !.cycled = workers[t].cycled]]
  /\ UNCHANGED <<bpFrame, winVars, nef, processed_images, image_queue,
                 processing_thread, cl, nStarts, lastStarts, getSince, lastReturn>>

\* the branch one loop iteration takes (lines 193-262): the path it picks and
\* from which chunk, "skip" when the first unprocessed path is not a .nef
\* while a .nef is unprocessed, "idle" when nothing is left
WorkerChoice ==
  LET uc == Unprocessed(current_chunk)
      un == Unprocessed(next_chunk)
  IN IF uc # <<>>
     THEN IF NefFirst(uc) THEN [kind |-> "current", path |-> uc[1]]
                          ELSE [kind |-> "skip", path |-> NoPath]
     ELSE IF next_chunk # <<>>
     THEN IF un # <<>>
          THEN IF NefFirst(un) THEN [kind |-> "next", path |-> un[1]]
                               ELSE [kind |-> "skip", path |-> NoPath]
          ELSE [kind |-> "skip", path |-> NoPath]
     ELSE [kind |-> "idle", path |-> NoPath]

\* lines 186-198, 226-232, 255-265: one pass of the loop up to the pick
WorkerPick(t) ==
  /\ workers[t].pc = "loop"
  /\ running
  /\ LET c == WorkerChoice
     IN workers' = [workers EXCEPT
          ![t] = [pc |-> CASE c.kind \in {"current", "next"} -> "picked"
                           [] c.kind = "idle" -> "idle"
                           [] OTHER -> "loop",
                  path |-> c.path,
                  kind |-> IF c.kind \in {"current", "next"} THEN c.kind ELSE "none",
                  cycled |-> TRUE]]
  /\ UNCHANGED <<bpFrame, winVars, nef, processed_images, image_queue,
                 processing_thread, cl, nStarts, lastStarts, getSince, lastReturn>>

\* lines 262-265: time.sleep(0.5), time.sleep(0.01)
WorkerWake(t) ==
  /\ workers[t].pc = "idle"
  /\ workers' = [workers EXCEPT ![t].pc = "loop"]
  /\ UNCHANGED <<bpFrame, winVars, nef, processed_images, image_queue,
                 processing_thread, cl, nStarts, lastStarts, getSince, lastReturn>>

\* lines 201, 234: "if img_path not in self.processed_images"
WorkerCheck(t) ==
  /\ workers[t].pc = "picked"
  /\ workers' = [workers EXCEPT
       ![t] = IF workers[t].path \notin DOMAIN processed_images
              THEN [@ EXCEPT !.pc = "checked"] ELSE Looping]
  /\ UNCHANGED <<bpFrame, winVars, nef, processed_images, image_queue,
                 processing_thread, cl, nStarts, lastStarts, getSince, lastReturn>>

\* lines 202-209, 235-242: the message is printed, process_image is called
WorkerBeginDecode(t) ==
  /\ workers[t].pc = "checked"
  /\ workers' = [workers EXCEPT ![t].pc = "decoding"]
  /\ UNCHANGED <<bpFrame, winVars, nef, processed_images, image_queue,
                 processing_thread, cl, nStarts, lastStarts, getSince, lastReturn>>

\* lines 203-214, 236-247: process_image returns; a buffer is stored in the
\* map, a None is dropped
WorkerDecoded(t) ==
  /\ workers[t].pc = "decoding"
  /\ LET img == process_image(workers[t].path)
     IN IF img # None
        THEN /\ processed_images' = MapPut(processed_images, workers[t].path, img)
             /\ workers' = [workers EXCEPT
                  ![t] = IF workers[t].kind = "current"
                         THEN [@ EXCEPT !.pc = "push"] ELSE Looping]
        ELSE /\ workers' = [workers EXCEPT ![t] = Looping]
             /\ UNCHANGED processed_images
  /\ UNCHANGED <<bpFrame, winVars, nef, image_queue,
                 processing_thread, cl, nStarts, lastStarts, getSince, lastReturn>>

\* line 218: "if not self.image_queue.full()"
WorkerQueueCheck(t) ==
  /\ workers[t].pc = "push"
  /\ workers' = [workers EXCEPT
       ![t] = IF Len(image_queue) < QueueMax
              THEN [@ EXCEPT !.pc = "put"] ELSE Looping]
  /\ UNCHANGED <<bpFrame, winVars, nef, processed_images, image_queue,
                 processing_thread, cl, nStarts, lastStarts, getSince, lastReturn>>

\* line 219: self.image_queue.put(...), which blocks while the queue is full
WorkerPut(t) ==
  /\ workers[t].pc = "put"
  /\ Len(image_queue) < QueueMax
  /\ image_queue' = Append(image_queue,
                           <<workers[t].path, process_image(workers[t].path)>>)
  /\ workers' = [workers EXCEPT ![t] = Looping]
  /\ UNCHANGED <<bpFrame, winVars, nef, processed_images,
                 processing_thread, cl, nStarts, lastStarts, getSince, lastReturn>>

(***************************************************************************)
(* The caller's thread: stop (lines 103-114), start (lines 44-101) and     *)
(* get_image (lines 116-177), one action per step another thread can       *)
(* observe.                                                                *)
(***************************************************************************)
\* what the caller got back last: from get_image the pair and the way it was
\* found; stops counts the stop() calls that returned one directly after the
\* other (2 stands for two or more)
NoReturn == [path |-> NoPath, img |-> None, via |-> "none", stops |-> 0]

\* a sleeping, decoding or blocked worker outlasts join(timeout=0.5)
OutlastsJoin(t) ==
  \/ workers[t].pc \in {"decoding", "idle"}
  \/ workers[t].pc = "put" /\ Len(image_queue) >= QueueMax

\* a drain that takes nothing out of the queue
LeaveQueue(q) == q

\* lines 110-114: get_nowait until the queue is empty
DrainQueue(q) == <<>>

\* line 105 of stop(), called directly, in whatever state the processor is
ClientCallStop ==
  /\ cl.pc = "ready"
  /\ running' = FALSE
  /\ cl' = [ClIdle EXCEPT !.pc = "join", !.op = "stop"]
  /\ UNCHANGED <<bpFrame, current_chunk, next_chunk, nef, processed_images,
                 image_queue, processing_thread, workers, nStarts, lastStarts,
                 getSince>>
  /\ lastReturn' = [NoReturn EXCEPT !.stops = lastReturn.stops]

\* line 63 of start(): self.stop(), whose first statement is line 105
ClientCallStart(i) ==
  /\ cl.pc = "ready"
  /\ nStarts < caller.starts
  /\ running' = FALSE
  /\ cl' = [ClIdle EXCEPT !.pc = "join", !.op = "start", !.idx = i]
  /\ UNCHANGED <<bpFrame, current_chunk, next_chunk, nef, processed_images,
                 image_queue, processing_thread, workers, nStarts, lastStarts,
                 getSince>>
  /\ lastReturn' = NoReturn

\* lines 106-107: join(timeout=0.5) of the thread in self.processing_thread,
\* skipped when there is none or it is not alive
ClientJoin ==
  /\ cl.pc = "join"
  /\ IF processing_thread = 0 \/ workers[processing_thread].pc = "exited"
     THEN TRUE
     ELSE OutlastsJoin(processing_thread)
  /\ cl' = [cl EXCEPT !.pc = "drain"]
  /\ UNCHANGED <<bpFrame, winVars, nef, processed_images, image_queue,
                 processing_thread, workers, nStarts, lastStarts, getSince,
                 lastReturn>>

\* lines 110-114: the queue is emptied; stop() returns
ClientDrain ==
  /\ cl.pc = "drain"
  /\ image_queue' = DrainQueue(image_queue)
  /\ cl' = IF cl.op = "stop" THEN ClIdle ELSE [cl EXCEPT !.pc = "assign"]
  /\ lastReturn' = IF cl.op = "stop"
                   THEN [lastReturn EXCEPT !.stops = Min(2, @ + 1)]
                   ELSE lastReturn
  /\ UNCHANGED <<bpFrame, winVars, nef, processed_images,
                 processing_thread, workers, nStarts, lastStarts, getSince>>

\* lines 65-72
ClientStartAssign ==
  /\ cl.pc = "assign"
  /\ current_chunk' = ChunkOf(cl.idx)
  /\ running' = TRUE
  /\ cl' = [cl EXCEPT !.pc = "next"]
  /\ UNCHANGED <<bpFrame, next_chunk, nef, processed_images, image_queue,
                 processing_thread, workers, nStarts, lastStarts, getSince,
                 lastReturn>>

\* lines 75-81
ClientStartNext ==
  /\ cl.pc = "next"
  /\ next_chunk' = NextChunkOf(BPAllPaths, cl.idx, BPChunkSize)
  /\ cl' = [cl EXCEPT !.pc = "filter"]
  /\ UNCHANGED <<bpFrame, running, current_chunk, nef, processed_images,
                 image_queue, processing_thread, workers, nStarts, lastStarts,
                 getSince, lastReturn>>

\* lines 84-87
ClientStartFilter ==
  /\ cl.pc = "filter"
  /\ processed_images' = MapKeep(processed_images,
                                 Range(current_chunk) \cup Range(next_chunk))
  /\ cl' = [cl EXCEPT !.pc = "spawn"]
  /\ UNCHANGED <<bpFrame, winVars, nef, image_queue,
                 processing_thread, workers, nStarts, lastStarts, getSince,
                 lastReturn>>

\* lines 89-97: the queue is emptied again, a new thread is started; start()
\* returns
ClientStartSpawn ==
  /\ cl.pc = "spawn"
  /\ image_queue' = DrainQueue(image_queue)
  /\ workers' = Append(workers, NewWorker)
  /\ processing_thread' = Len(workers) + 1
  /\ nStarts' = nStarts + 1
  /\ lastStarts' = LastN(Append(lastStarts, cl.idx), 2)
  /\ getSince' = FALSE
  /\ cl' = ClIdle
  /\ UNCHANGED <<bpFrame, winVars, nef, processed_images, lastReturn>>

\* lines 127-133: the map is looked up; on a hit get_image returns
ClientCallGet(p) ==
  /\ cl.pc = "ready"
  /\ caller.gets
  /\ getSince' = TRUE
  /\ IF p \in DOMAIN processed_images
     THEN /\ lastReturn' = [NoReturn EXCEPT !.path = p, !.img = processed_images[p],
                                             !.via = "map"]
          /\ cl' = ClIdle
     ELSE /\ cl' = [ClIdle EXCEPT !.pc = "scan", !.op = "get", !.path = p]
          /\ lastReturn' = NoReturn
  /\ UNCHANGED <<bpFrame, winVars, nef, processed_images, image_queue,
                 processing_thread, workers, nStarts, lastStarts>>

\* a search loop without the comparison of line 141: the first entry taken
\* is taken for the requested one
ClientScanAnyEntry ==
  /\ cl.pc = "scan"
  /\ IF image_queue # <<>> /\ ~cl.found
     THEN LET item == Head(image_queue)
          IN /\ image_queue' = Tail(image_queue)
             /\ cl' = [cl EXCEPT !.found = TRUE, !.found_data = item[2]]
             /\ processed_images' = MapPut(processed_images, item[1], item[2])
     ELSE /\ cl' = [cl EXCEPT !.pc = "putback"]
          /\ UNCHANGED <<image_queue, processed_images>>
  /\ UNCHANGED <<bpFrame, winVars, nef, processing_thread, workers, nStarts,
                 lastStarts, getSince, lastReturn>>

\* lines 136-149: one pass of the search loop
ClientScan ==
  /\ cl.pc = "scan"
  /\ IF image_queue # <<>> /\ ~cl.found
     THEN LET item == Head(image_queue)
          IN /\ image_queue' = Tail(image_queue)
             /\ IF item[1] = cl.path
                THEN /\ cl' = [cl EXCEPT !.found = TRUE, !.found_data = item[2]]
                     /\ processed_images' = MapPut(processed_images, item[1], item[2])
                ELSE /\ cl' = [cl EXCEPT !.temp = Append(cl.temp, item)]
                     /\ UNCHANGED processed_images
     ELSE /\ cl' = [cl EXCEPT !.pc = "putback"]
          /\ UNCHANGED <<image_queue, processed_images>>
  /\ UNCHANGED <<bpFrame, winVars, nef, processing_thread, workers, nStarts,
                 lastStarts, getSince, lastReturn>>

\* a put-back whose except branch swallows the entry: the entry is dropped
ClientPutBackDrops ==
  /\ cl.pc = "putback"
  /\ cl.temp # <<>>
  /\ cl' = [cl EXCEPT !.temp = Tail(cl.temp)]
  /\ UNCHANGED <<bpFrame, winVars, nef, processed_images, image_queue,
                 processing_thread, workers, nStarts, lastStarts, getSince,
                 lastReturn>>

\* lines 152-154: self.image_queue.put(item) waits while the queue is full
ClientPutBack ==
  /\ cl.pc = "putback"
  /\ cl.temp # <<>>
  /\ Len(image_queue) < QueueMax
  /\ image_queue' = Append(image_queue, Head(cl.temp))
  /\ cl' = [cl EXCEPT !.temp = Tail(cl.temp)]
  /\ UNCHANGED <<bpFrame, winVars, nef, processed_images, processing_thread,
                 workers, nStarts, lastStarts, getSince, lastReturn>>

\* lines 160-171: the found buffer is returned, or process_image is called
ClientAfterPutBack ==
  /\ cl.pc = "putback"
  /\ cl.temp = <<>>
  /\ IF cl.found
     THEN /\ lastReturn' = [NoReturn EXCEPT !.path = cl.path, !.img = cl.found_data,
                                             !.via = "queue"]
          /\ cl' = ClIdle
     ELSE /\ cl' = [cl EXCEPT !.pc = "decode"]
          /\ UNCHANGED lastReturn
  /\ UNCHANGED <<bpFrame, winVars, nef, processed_images, image_queue,
                 processing_thread, workers, nStarts, lastStarts, getSince>>

\* lines 165-177: process_image returns; a buffer is stored, a None is not
ClientDecoded ==
  /\ cl.pc = "decode"
  /\ LET img == process_image(cl.path)
     IN /\ processed_images' = IF img # None
                               THEN MapPut(processed_images, cl.path, img)
                               ELSE processed_images
        /\ lastReturn' = [NoReturn EXCEPT !.path = cl.path, !.img = img,
                                             !.via = "decode"]
  /\ cl' = ClIdle
  /\ UNCHANGED <<bpFrame, winVars, nef, image_queue, processing_thread,
                 workers, nStarts, lastStarts, getSince>>

(***************************************************************************)
(* The BackgroundProcessor after construction (lines 24-42), for a few     *)
(* path lists: which files are unreadable, which are .nef files.           *)
(***************************************************************************)
\* a caller that shows images between its start() calls, and one that only
\* moves from chunk to chunk (a key held down), one start() more
Viewing == [starts |-> MaxStarts, gets |-> TRUE]
Restarting == [starts |-> MaxStarts + 1, gets |-> FALSE]

BPScenarios ==
  { [bad |-> {},  raw |-> {},     who |-> Viewing],
    [bad |-> {2}, raw |-> {},     who |-> Viewing],
    [bad |-> {},  raw |-> {2},    who |-> Viewing],
    [bad |-> {3}, raw |-> {1, 3}, who |-> Viewing],
    [bad |-> {},  raw |-> {},     who |-> Restarting] }

\* no navigation run
NavIdle ==
  /\ image_paths = <<>>
  /\ current_image_index = 0
  /\ history = <<>>
  /\ chunk_start = 0
  /\ chunk_end = 0
  /\ output_dir = FALSE
  /\ navpc = "idle"
  /\ fileDate = [f \in Files |-> 0]
  /\ nMoves = 0
  /\ onlySkips = TRUE
  /\ prompts = 0
  /\ skipStreak = <<>>
  /\ lastAct = NoAct
  /\ lastBack = NoAct
  /\ DefaultKeys

\* BackgroundProcessor.__init__, lines 24-42
Constructed ==
  /\ running = FALSE
  /\ current_chunk = <<>>
  /\ next_chunk = <<>>
  /\ processed_images = EmptyMap
  /\ image_queue = <<>>
  /\ processing_thread = 0
  /\ workers = <<>>
  /\ cl = ClIdle
  /\ nStarts = 0
  /\ lastStarts = <<>>
  /\ getSince = FALSE
  /\ lastReturn = NoReturn

Init ==
  /\ \E sc \in BPScenarios : corrupt = sc.bad /\ nef = sc.raw /\ caller = sc.who
  /\ NavIdle
  /\ SideIdle
  /\ Constructed
  /\ DecoderIdle

Next ==
  \/ ClientCallStop
  \/ \E i \in BPChunks : ClientCallStart(i)
  \/ ClientJoin
  \/ ClientDrain
  \/ ClientStartAssign
  \/ ClientStartNext
  \/ ClientStartFilter
  \/ ClientStartSpawn
  \/ \E p \in Range(BPAllPaths) : ClientCallGet(p)
  \/ ClientScan
  \/ ClientPutBack
  \/ ClientAfterPutBack
  \/ ClientDecoded
  \/ \E t \in DOMAIN workers : WorkerExit(t)
  \/ \E t \in DOMAIN workers : WorkerPick(t)
  \/ \E t \in DOMAIN workers : WorkerWake(t)
  \/ \E t \in DOMAIN workers : WorkerCheck(t)
  \/ \E t \in DOMAIN workers : WorkerBeginDecode(t)
  \/ \E t \in DOMAIN workers : WorkerDecoded(t)
  \/ \E t \in DOMAIN workers : WorkerQueueCheck(t)
  \/ \E t \in DOMAIN workers : WorkerPut(t)

Spec == Init /\ [][Next]_vars

(***************************************************************************)
(* The viewer the application window starts (core/viewer.py, called from   *)
(* ui/app.py): ImageViewer.process_images with configurable save and       *)
(* delete keys.  Its locals index and current_chunk_index are chunk_start  *)
(* and current_image_index - chunk_start here; the list is sorted by date  *)
(* as a whole before the call (sort_by_date), so no chunk is sorted again. *)
(***************************************************************************)
NViewerPaths == 5
\* file moves in a run of core/viewer.py: enough for a key that keeps and
\* skips at once to walk to the last image and act on it
MaxViewerMoves == 3
ViewerChunkSize == 2

RightKeys == {83, 2555904, 39, 65363}
EscKeys == {27, -1}

\* get_key_code's key_map (lines 53-83), the names used here
key_map ==
  [n \in {"space", "backspace", "escape", "left", "right", "d"} |->
     CASE n = "space" -> 32
       [] n = "backspace" -> 8
       [] n = "escape" -> 27
       [] n = "left" -> 2424832
       [] n = "right" -> 2555904
       [] n = "d" -> 100]

\* line 84: key_map.get(key_name.lower(), 32)
get_key_code(key_name) ==
  IF key_name \in DOMAIN key_map THEN key_map[key_name] ELSE 32

\* the names the two entry fields of the window can hold: names of key_map,
\* the empty string, and a key name key_map does not have
BindNames == DOMAIN key_map \cup {"", "comma"}

\* ui/app.py lines 242-253: equal names are refused, an empty name becomes
\* the default
Accepted(save_keybind, delete_keybind) == save_keybind # delete_keybind
SaveName(save_keybind) == IF save_keybind = "" THEN "space" ELSE save_keybind
DeleteName(delete_keybind) ==
  IF delete_keybind = "" THEN "backspace" ELSE delete_keybind

\* the key codes cv2.waitKeyEx returns in the model: left and right arrow,
\* space, backspace, Esc, 'd' and 'x'
KeysRead == {2424832, 2555904, 32, 8, 27, 100, 120}

\* what no step of viewer.py touches
viewerFrame == <<output_dir, corrupt, fileDate, onlySkips, prompts, skipStreak,
                 lastAct, lastBack, bpVars, decVars, save_key_code,
                 delete_key_code, sideVars>>

\* lines 114-140: the head of the chunk loop; start() for the chunk
ViewerChunkStart ==
  /\ navpc = "loop"
  /\ chunk_start < Len(image_paths)
  /\ LET ce == Min(chunk_start + ViewerChunkSize, Len(image_paths))
     IN /\ chunk_end' = ce
        /\ current_chunk' = Slice(image_paths, chunk_start, ce)
        /\ next_chunk' = NextChunkOf(image_paths, chunk_start \div ViewerChunkSize,
                                    ViewerChunkSize)
  /\ running' = TRUE
  /\ current_image_index' = chunk_start
  /\ navpc' = "chunk"
  /\ UNCHANGED <<viewerFrame, image_paths, history, chunk_start, nMoves,
                 key_pressed>>

\* line 142: while index + current_chunk_index < chunk_end
ViewerInChunk == current_image_index < chunk_end

\* lines 142, 291: the chunk is done, index = chunk_end
ViewerChunkEnd ==
  /\ navpc = "chunk"
  /\ ~ViewerInChunk
  /\ chunk_start' = chunk_end
  /\ current_image_index' = chunk_end
  /\ navpc' = "loop"
  /\ UNCHANGED <<viewerFrame, winVars, image_paths, history, chunk_end, nMoves,
                 key_pressed>>

\* lines 292-296: all chunks processed
ViewerFinish ==
  /\ navpc = "loop"
  /\ chunk_start >= Len(image_paths)
  /\ running' = FALSE
  /\ navpc' = "done"
  /\ UNCHANGED <<viewerFrame, current_chunk, next_chunk, image_paths,
                 current_image_index, history, chunk_start, chunk_end, nMoves,
                 key_pressed>>

\* lines 142-162: get_image gave None; the slot is passed
ViewerSkipUnreadable ==
  /\ navpc = "chunk"
  /\ ViewerInChunk
  /\ NavGetImage(CurrentPath) = None
  /\ current_image_index' = current_image_index + 1
  /\ UNCHANGED <<viewerFrame, winVars, image_paths, history, chunk_start,
                 chunk_end, nMoves, navpc, key_pressed>>

\* lines 142-230: the image is shown
ViewerShow ==
  /\ navpc = "chunk"
  /\ ViewerInChunk
  /\ NavGetImage(CurrentPath) # None
  /\ navpc' = "wait"
  /\ UNCHANGED <<viewerFrame, winVars, image_paths, current_image_index,
                 history, chunk_start, chunk_end, nMoves, key_pressed>>

\* line 231: key = cv2.waitKeyEx(0)
ViewerKey ==
  /\ navpc = "wait"
  /\ \E k \in KeysRead : key_pressed' = k
  /\ navpc' = "key"
  /\ UNCHANGED <<viewerFrame, winVars, image_paths, current_image_index,
                 history, chunk_start, chunk_end, nMoves>>

\* lines 234-262: a left arrow
ViewerBack ==
  /\ navpc = "key"
  /\ key_pressed \in LeftKeys
  /\ IF Len(history) = 0
     THEN UNCHANGED <<history, chunk_start, current_image_index>>
     ELSE LET prev_index == IndexOf(image_paths, DequeTop(history))
          IN /\ history' = DequePop(history)
             /\ IF prev_index >= 0
                THEN /\ current_image_index' = prev_index
                     /\ chunk_start' =
                          IF prev_index < chunk_start
                          THEN (prev_index \div ViewerChunkSize) * ViewerChunkSize
                          ELSE chunk_start
                ELSE IF current_image_index > chunk_start
                THEN /\ current_image_index' = current_image_index - 1
                     /\ UNCHANGED chunk_start
                ELSE IF chunk_start > 0
                THEN /\ chunk_start' = chunk_start - ViewerChunkSize
                     /\ current_image_index' = chunk_start - 1
                ELSE UNCHANGED <<chunk_start, current_image_index>>
  /\ navpc' = "chunk"
  /\ UNCHANGED <<viewerFrame, winVars, image_paths, chunk_end, nMoves,
                 key_pressed>>

\* lines 263-266: a right arrow appends and advances, and the key then goes
\* through the save / delete / Esc tests of lines 268-287 as well
ForwardHistory ==
  IF key_pressed \in RightKeys THEN DequeAppend(history, CurrentPath) ELSE history
ForwardSteps == IF key_pressed \in RightKeys THEN 1 ELSE 0

\* lines 263-266 alone: a right arrow that is neither the save nor the
\* delete key
ViewerForward ==
  /\ navpc = "key"
  /\ key_pressed \in RightKeys
  /\ key_pressed \notin {save_key_code, delete_key_code}
  /\ history' = ForwardHistory
  /\ current_image_index' = current_image_index + ForwardSteps
  /\ navpc' = "chunk"
  /\ UNCHANGED <<viewerFrame, winVars, image_paths, chunk_start, chunk_end,
                 nMoves, key_pressed>>

\* lines 268-273: the save key, the move succeeds
ViewerKeep ==
  /\ navpc = "key"
  /\ key_pressed \notin LeftKeys
  /\ key_pressed = save_key_code
  /\ nMoves < MaxViewerMoves
  /\ history' = DequeAppend(ForwardHistory, CurrentPath)
  /\ image_paths' = [image_paths EXCEPT
                       ![current_image_index + 1] = KeptPath(CurrentPath)]
  /\ current_image_index' = current_image_index + ForwardSteps + 1
  /\ nMoves' = nMoves + 1
  /\ navpc' = "chunk"
  /\ UNCHANGED <<viewerFrame, winVars, chunk_start, chunk_end, key_pressed>>

\* line 279: os.path.join(deleted_dir, image_name), no counter
DeletedPathNoCounter(p) == <<p[1], "del", 0>>

\* lines 274-282: the delete key, the move succeeds
ViewerDelete ==
  /\ navpc = "key"
  /\ key_pressed \notin LeftKeys
  /\ key_pressed # save_key_code
  /\ key_pressed = delete_key_code
  /\ nMoves < MaxViewerMoves
  /\ history' = DequeAppend(ForwardHistory, CurrentPath)
  /\ image_paths' = [image_paths EXCEPT
                       ![current_image_index + 1] = DeletedPathNoCounter(CurrentPath)]
  /\ current_image_index' = current_image_index + ForwardSteps + 1
  /\ nMoves' = nMoves + 1
  /\ navpc' = "chunk"
  /\ UNCHANGED <<viewerFrame, winVars, chunk_start, chunk_end, key_pressed>>

\* lines 269-270, 275-280: the move raises (shutil.move, os.makedirs) after
\* history.append; the exception leaves process_images and is reported by
\* ui/app.py (lines 269-271); stop() is not called
ViewerMoveFails ==
  /\ navpc = "key"
  /\ key_pressed \notin LeftKeys
  /\ key_pressed \in {save_key_code, delete_key_code}
  /\ history' = DequeAppend(ForwardHistory, CurrentPath)
  /\ current_image_index' = current_image_index + ForwardSteps
  /\ navpc' = "crashed"
  /\ UNCHANGED <<viewerFrame, winVars, image_paths, chunk_start, chunk_end,
                 nMoves, key_pressed>>

\* lines 283-287: Esc, unless it is the save or the delete key
ViewerQuit ==
  /\ navpc = "key"
  /\ key_pressed \in EscKeys
  /\ key_pressed \notin {save_key_code, delete_key_code}
  /\ running' = FALSE
  /\ navpc' = "aborted"
  /\ UNCHANGED <<viewerFrame, current_chunk, next_chunk, image_paths,
                 current_image_index, history, chunk_start, chunk_end, nMoves,
                 key_pressed>>

\* lines 234-287: no test matches the key; the loop shows the image again
ViewerIgnored ==
  /\ navpc = "key"
  /\ key_pressed \notin LeftKeys \cup RightKeys \cup EscKeys
  /\ key_pressed \notin {save_key_code, delete_key_code}
  /\ navpc' = "chunk"
  /\ UNCHANGED <<viewerFrame, winVars, image_paths, current_image_index,
                 history, chunk_start, chunk_end, nMoves, key_pressed>>

\* process_images is entered (lines 30-112) with the key names ui/app.py
\* passes and the list start_processing built
InitViewer ==
  /\ image_paths = [i \in 1..NViewerPaths |-> PathOf(i)]
  /\ current_image_index = 0
  /\ history = <<>>
  /\ chunk_start = 0
  /\ chunk_end = 0
  /\ output_dir = TRUE
  /\ \E bad \in {{}, {2}} : corrupt = bad
  /\ fileDate = [f \in Files |-> 1]
  /\ navpc = "loop"
  /\ nMoves = 0
  /\ onlySkips = TRUE
  /\ prompts = 0
  /\ skipStreak = <<>>
  /\ lastAct = NoAct
  /\ lastBack = NoAct
  /\ \E save_keybind \in BindNames, delete_keybind \in BindNames :
       /\ Accepted(save_keybind, delete_keybind)
       /\ save_key_code = get_key_code(SaveName(save_keybind))
       /\ delete_key_code = get_key_code(DeleteName(delete_keybind))
  /\ key_pressed = 0
  /\ SideIdle
  /\ nef = {}
  /\ caller = [starts |-> 0, gets |-> FALSE]
  /\ Constructed
  /\ DecoderIdle

NextViewer ==
  \/ ViewerChunkStart
  \/ ViewerChunkEnd
  \/ ViewerFinish
  \/ ViewerSkipUnreadable
  \/ ViewerShow
  \/ ViewerKey
  \/ ViewerBack
  \/ ViewerForward
  \/ ViewerKeep
  \/ ViewerDelete
  \/ ViewerMoveFails
  \/ ViewerQuit
  \/ ViewerIgnored

SpecViewer == InitViewer /\ [][NextViewer]_vars

(***************************************************************************)
(* One window left alone: the caller makes a single start() and then calls *)
(* nothing, so running stays true and the worker is never asked to exit.   *)
(* The start() call runs to its end and the worker thread is scheduled     *)
(* again and again: its sleeps end and process_image returns, so each of   *)
(* its steps that stays possible is taken (weak fairness); a put on a full *)
(* queue is not possible and may wait forever.                             *)
(***************************************************************************)
Once == [starts |-> 1, gets |-> FALSE]

InitWindow ==
  /\ \E sc \in BPScenarios : corrupt = sc.bad /\ nef = sc.raw
  /\ caller = Once
  /\ NavIdle
  /\ SideIdle
  /\ Constructed
  /\ DecoderIdle

StartSteps ==
  \/ \E i \in BPChunks : ClientCallStart(i)
  \/ ClientJoin
  \/ ClientDrain
  \/ ClientStartAssign
  \/ ClientStartNext
  \/ ClientStartFilter
  \/ ClientStartSpawn

NextWindow ==
  \/ StartSteps
  \/ \E t \in DOMAIN workers : WorkerPick(t)
  \/ \E t \in DOMAIN workers : WorkerWake(t)
  \/ \E t \in DOMAIN workers : WorkerCheck(t)
  \/ \E t \in DOMAIN workers : WorkerBeginDecode(t)
  \/ \E t \in DOMAIN workers : WorkerDecoded(t)
  \/ \E t \in DOMAIN workers : WorkerQueueCheck(t)
  \/ \E t \in DOMAIN workers : WorkerPut(t)

WorkerScheduled ==
  /\ WF_vars(StartSteps)
  /\ WF_vars(\E t \in DOMAIN workers : WorkerPick(t))
  /\ WF_vars(\E t \in DOMAIN workers : WorkerWake(t))
  /\ WF_vars(\E t \in DOMAIN workers : WorkerCheck(t))
  /\ WF_vars(\E t \in DOMAIN workers : WorkerBeginDecode(t))
  /\ WF_vars(\E t \in DOMAIN workers : WorkerDecoded(t))
  /\ WF_vars(\E t \in DOMAIN workers : WorkerQueueCheck(t))
  /\ WF_vars(\E t \in DOMAIN workers : WorkerPut(t))

SpecWindow == InitWindow /\ [][NextWindow]_vars /\ WorkerScheduled

(***************************************************************************)
(* Restarts in a row: the caller starts chunk 0, starts it again (a run    *)
(* ended and begun anew), goes on to chunk 1 and comes back to chunk 0,    *)
(* and calls nothing else.  The first window lists a .nef before a .jpg.   *)
(***************************************************************************)
\* start() calls in this run
MaxRestarts == 4
Often == [starts |-> MaxRestarts, gets |-> FALSE]

\* the chunk index of each start() call
BackAndForth == <<0, 0, 1, 0, 1>>

InitRestarts ==
  /\ corrupt = {} /\ nef = {1}
  /\ caller = Often
  /\ NavIdle
  /\ SideIdle
  /\ Constructed
  /\ DecoderIdle

NextRestarts ==
  \/ ClientCallStart(BackAndForth[nStarts + 1])
  \/ ClientJoin
  \/ ClientDrain
  \/ ClientStartAssign
  \/ ClientStartNext
  \/ ClientStartFilter
  \/ ClientStartSpawn
  \/ \E t \in DOMAIN workers : WorkerExit(t)
  \/ \E t \in DOMAIN workers : WorkerPick(t)
  \/ \E t \in DOMAIN workers : WorkerWake(t)
  \/ \E t \in DOMAIN workers : WorkerCheck(t)
  \/ \E t \in DOMAIN workers : WorkerBeginDecode(t)
  \/ \E t \in DOMAIN workers : WorkerDecoded(t)
  \/ \E t \in DOMAIN workers : WorkerQueueCheck(t)
  \/ \E t \in DOMAIN workers : WorkerPut(t)

SpecRestarts == InitRestarts /\ [][NextRestarts]_vars

(***************************************************************************)
(* The resize on its own: any source size into any display size.           *)
(***************************************************************************)
InitResize ==
  /\ \E w \in Dims, h \in Dims, mw \in Dims, mh \in Dims :
       rz = [NoResize EXCEPT !.w = w, !.h = h, !.max_width = mw, !.max_height = mh]
  /\ st_mtime = [p \in DecodePaths |-> 1]
  /\ cache_files = EmptyMap
  /\ stored = EmptyMap
  /\ touched = {}
  /\ lastLookup = NoLookup
  /\ corrupt = {} /\ nef = {} /\ caller = Viewing
  /\ NavIdle
  /\ SideIdle
  /\ Constructed

NextResize ==
  \/ CallResizeToFit
  \/ CallResizeImage

SpecResize == InitResize /\ [][NextResize]_vars

(***************************************************************************)
(* The disk cache on its own: process_image calls for .nef files, run      *)
(* after run with either display size, and files written in between.       *)
(***************************************************************************)
InitCache ==
  /\ DecoderIdle
  /\ corrupt = {} /\ nef = {} /\ caller = Viewing
  /\ NavIdle
  /\ SideIdle
  /\ Constructed

NextCache ==
  \/ \E path \in CachePaths, t \in Targets, use_cache \in BOOLEAN :
       ProcessImage(path, t.max_width, t.max_height, use_cache)
  \/ \E path \in CachePaths : TouchFile(path)

SpecCache == InitCache /\ [][NextCache]_vars

(***************************************************************************)
(* process_image with what can go wrong: files that cannot be decoded,     *)
(* files that disappear, files of the cache directory that get damaged.    *)
(***************************************************************************)
InitDecode ==
  /\ DecoderIdle
  /\ \E bad \in {{}, {<<"a", ".nef">>}, {<<"b", ".jpg">>}} : corrupt = bad
  /\ nef = {} /\ caller = Viewing
  /\ NavIdle
  /\ SideIdle
  /\ Constructed

\* the files process_image is called for here: one .nef, one .jpg
FaultPaths == { <<"a", ".nef">>, <<"b", ".jpg">> }

NextDecode ==
  \/ \E path \in FaultPaths, t \in Targets, use_cache \in BOOLEAN :
       ProcessImage(path, t.max_width, t.max_height, use_cache)
  \/ \E path \in FaultPaths : TouchFile(path)
  \/ \E path \in FaultPaths : RemoveFile(path)
  \/ \E cache_path \in DOMAIN cache_files : DamageCacheFile(cache_path)

SpecDecode == InitDecode /\ [][NextDecode]_vars

(***************************************************************************)
(* LocalizationService (i18n/localization.py): the language code, the      *)
(* switch between the two languages, and get_text.  A text is modelled by  *)
(* <<language, key>>: the entry of that language's dictionary for the key. *)
(***************************************************************************)
\* the keys of _languages[ENGLISH] and _languages[DANISH] (lines 17-103):
\* both dictionaries have the same keys
DictKeys ==
  {"all_processed", "browse", "chunk_size", "delete_duplicates",
   "delete_keybind", "directories_settings", "done", "error",
   "image_quality", "image_window", "images", "input_dir", "invalid_dir",
   "keybind_help", "keybind_settings", "keybindings", "loaded_from_cache",
   "loading_chunk", "max_height", "max_width", "no_date", "options_settings",
   "output_dir", "preloading", "processing_image", "processing_parameters",
   "quality_high", "quality_low", "quality_normal", "quality_settings",
   "save_keybind", "search_recursively", "sort_by_date", "sorted_by_date",
   "start_processing", "status_deleted", "status_history", "status_saved",
   "status_skipped", "switch_lang", "use_cache", "window_title"}

\* the two entries that read the same in both languages
SameInBoth == {"quality_normal", "status_skipped"}

\* the keys get_text is called with: those of the dictionaries and one
\* that is in neither
TextKeys == DictKeys \cup {"status_unknown"}

\* a switch that always ends in English
StuckOnEnglish(code) == ENGLISH

\* switch_language, lines 138-143
switch_language(code) == IF code = ENGLISH THEN DANISH ELSE ENGLISH

\* get_text, lines 160-171, with no default: the entry of the current
\* dictionary, or the key itself
get_text(code, key) ==
  IF key \in DictKeys
  THEN IF key \in SameInBoth THEN <<"both", key>> ELSE <<code, key>>
  ELSE <<"key", key>>

langFrame == <<navVars, winVars, bpVars, decVars, keyVars, moveVars, backRun>>

SwitchLanguage ==
  /\ current_language_code' = switch_language(current_language_code)
  /\ lang_trail' = LastN(Append(lang_trail, current_language_code), 2)
  /\ UNCHANGED <<last_text, langFrame>>

GetText(key) ==
  /\ last_text' = get_text(current_language_code, key)
  /\ UNCHANGED <<current_language_code, lang_trail, langFrame>>

\* the module's global instance, line 175
InitLang ==
  /\ DecoderIdle
  /\ corrupt = {} /\ nef = {} /\ caller = Viewing
  /\ NavIdle
  /\ SideIdle
  /\ Constructed

NextLang ==
  \/ SwitchLanguage
  \/ \E key \in TextKeys : GetText(key)

SpecLang == InitLang /\ [][NextLang]_vars

(***************************************************************************)
(* The file moves of keep and delete on a disk where names can collide.    *)
(* A path is <<directory, name>> and a name is <<base, c1, .., cn>>: the    *)
(* file name base_c1_.._cn.jpg.  "in1" and "in2" are two directories of    *)
(* the input tree (a recursive search lists both), "kept" is               *)
(* <output_dir>/<Year>/<Mon> of the month the dated pictures were taken,   *)
(* "nodate" is <output_dir>/No Date and "del" is <output_dir>/Deleted.     *)
(***************************************************************************)
\* longest name a move may produce: a base and two counters
MaxNameLen == 3

\* the pictures of the list, and one left in the output tree by an earlier run
Listed == {1, 2, 3}
Leftover == 4

\* get_image_metadata_date: picture 3 carries no date
HasDate(picture) == picture # 3

\* file_utils.py lines 181-197: the directory a kept picture goes to
DateDir(picture) == IF HasDate(picture) THEN "kept" ELSE "nodate"

\* file_utils.py lines 207-211, image_viewer.py lines 339-346: the loop
\* that appends _<counter> until the name is free
RECURSIVE CounterLoop(_, _, _, _)
CounterLoop(d, dir, name, counter) ==
  IF <<dir, Append(name, counter)>> \in DOMAIN d
  THEN CounterLoop(d, dir, name, counter + 1)
  ELSE <<dir, Append(name, counter)>>

\* os.path.join(dir, filename), then the loop
WithCounter(d, dir, name) ==
  IF <<dir, name>> \in DOMAIN d THEN CounterLoop(d, dir, name, 1)
                               ELSE <<dir, name>>

\* viewer.py lines 278-279: os.path.join(deleted_dir, image_name), no loop
WithoutCounter(d, dir, name) == <<dir, name>>

\* the pictures a disk holds
Pictures(d) == {d[p] : p \in DOMAIN d}

\* shutil.move(src, dst) for a dst that is no directory: os.rename, which
\* replaces an existing dst (where it refuses, shutil.move copies over it);
\* a move onto itself changes nothing
shutil_move(d, src, dst) ==
  IF src = dst THEN d
  ELSE [p \in (DOMAIN d \ {src}) \cup {dst} |-> IF p = dst THEN d[src] ELSE d[p]]

moveFrame == <<navVars, winVars, bpVars, decVars, keyVars, langVars, backRun>>

\* one move by one of the three pieces of code, and what it met
MoveTo(by, src, dir, new_path) ==
  /\ Len(new_path[2]) <= MaxNameLen
  /\ disk' = shutil_move(disk, src, new_path)
  /\ lastMove' = [by |-> by, src |-> src, dst |-> new_path,
                  clash |-> <<dir, src[2]>> \in DOMAIN disk,
                  free |-> new_path \notin DOMAIN disk,
                  lost |-> Pictures(disk) \ Pictures(disk')]
  /\ UNCHANGED moveFrame

\* move_image_to_dir_with_date (file_utils.py lines 169-216), called by Keep
\* of both viewers
MoveWithDate(src) ==
  LET output_dir_ == DateDir(disk[src])
  IN MoveTo("move_image_to_dir_with_date", src, output_dir_,
            WithCounter(disk, output_dir_, src[2]))

\* image_viewer.py _handle_delete_action, lines 331-348
HandleDeleteAction(src) ==
  MoveTo("_handle_delete_action", src, "del", WithCounter(disk, "del", src[2]))

\* viewer.py process_images, lines 274-281
ViewerDeleteMove(src) ==
  MoveTo("process_images", src, "del", WithoutCounter(disk, "del", src[2]))

\* the paths of the list: the listed pictures, wherever they are by now
ListedPaths == {p \in DOMAIN disk : disk[p] \in Listed}

\* two pictures called a.jpg in different input directories, one called
\* a_1.jpg, and an output tree that is empty or holds an a.jpg already
InitMove ==
  /\ \E old \in {EmptyMap,
                 [p \in {<<"del", <<"a">>>>} |-> Leftover],
                 [p \in {<<"kept", <<"a">>>>} |-> Leftover]} :
       disk = [p \in DOMAIN old \cup {<<"in1", <<"a">>>>, <<"in2", <<"a">>>>,
                                       <<"in1", <<"a", 1>>>>} |->
                 CASE p = <<"in1", <<"a">>>> -> 1
                   [] p = <<"in2", <<"a">>>> -> 2
                   [] p = <<"in1", <<"a", 1>>>> -> 3
                   [] OTHER -> old[p]]
  /\ lastMove = NoMove
  /\ LangIdle
  /\ backRun = NoRun
  /\ DecoderIdle
  /\ corrupt = {} /\ nef = {} /\ caller = Viewing
  /\ NavIdle
  /\ Constructed

NextMove ==
  \/ \E src \in ListedPaths : MoveWithDate(src)
  \/ \E src \in ListedPaths : HandleDeleteAction(src)
  \/ \E src \in ListedPaths : ViewerDeleteMove(src)

SpecMove == InitMove /\ [][NextMove]_vars

(***************************************************************************)
(* Claims about the navigation (specification SpecNav).                    *)
(***************************************************************************)

\* C1: the history never holds more than 10 paths, and after more than 10
\* consecutive skips (no Back, keep or delete in between) it holds exactly
\* the 10 most recently skipped paths, oldest first.
C1_HistoryBound ==
  /\ Len(history) <= MaxHistory
  /\ Len(skipStreak) > MaxHistory => history = LastN(skipStreak, MaxHistory)

C1_Witness ==
  /\ Len(skipStreak) > MaxHistory
  /\ Len(history) = MaxHistory
  /\ history[1] = skipStreak[Len(skipStreak) - MaxHistory + 1]

\* C2: a Back pressed right after an action (skip, keep, delete) on path p at
\* index k sets the cursor to the index that now holds p's file, also when
\* the move rewrote p's path string and when unreadable slots were passed
\* between k and the cursor, and p is no longer in the history.
C2_BackRestoresCursor ==
  lastBack.kind # "none" =>
    /\ current_image_index = lastBack.idx
    /\ FileOf(image_paths[lastBack.idx + 1]) = FileOf(lastBack.path)
    /\ \A i \in 1..Len(history) : history[i] # lastBack.path

\* C2, the part the code keeps: Back after a skip, with or without unreadable
\* slots in between, and Back after a keep/delete with none in between.
C2_BackAfterSkipOrAdjacent ==
  (lastBack.kind = "skip" \/ (lastBack.kind \in {"keep", "delete"} /\ ~lastBack.gap)) =>
    /\ current_image_index = lastBack.idx
    /\ FileOf(image_paths[lastBack.idx + 1]) = FileOf(lastBack.path)
    /\ \A i \in 1..Len(history) : history[i] # lastBack.path

\* C8: in a run to completion with skips only, the number of prompts equals
\* the number of decodable images (no undecodable image gets a prompt), and
\* the final history is no longer than that number.
NDecodable == NPaths - Cardinality(corrupt)

C8_SkipRunPrompts ==
  (navpc = "done" /\ onlySkips) =>
    /\ prompts = NDecodable
    /\ Len(history) <= NDecodable

C8_Witness ==
  /\ navpc = "done"
  /\ onlySkips
  /\ corrupt # {}
  /\ prompts = NDecodable
  /\ current_image_index = Len(image_paths)

\* C14: when get_image returns None for the path under the cursor, the next
\* step of the navigation moves the cursor forward by exactly one without
\* waiting for a key, and leaves the history and the path list as they are.
C14_NoneBufferAdvances ==
  [][(navpc = "chunk" /\ InChunk /\ NavGetImage(CurrentPath) = None)
       => /\ current_image_index' = current_image_index + 1
          /\ navpc' = "chunk"
          /\ history' = history
          /\ image_paths' = image_paths]_vars

\* the slot after a skipped image had no buffer and was passed: the cursor
\* is two past the skipped image and the history ends with that image
C14_Witness ==
  /\ lastAct.kind = "skip"
  /\ lastAct.gap
  /\ current_image_index = lastAct.idx + 2
  /\ ~Decodable(image_paths[current_image_index])
  /\ DequeTop(history) = lastAct.path

\* C15: a key that is not a Back key, not the save key, not the delete key
\* and not Esc (the right arrow among them) appends the path under the
\* cursor to the history, moves the cursor forward by exactly one and
\* leaves the path list as it is.
C15_OtherKeySkips ==
  [][( /\ navpc = "key"
       /\ key_pressed \notin LeftKeys \cup EscKeys
       /\ key_pressed \notin {save_key_code, delete_key_code} )
     => /\ history' = DequeAppend(history, CurrentPath)
        /\ current_image_index' = current_image_index + 1
        /\ image_paths' = image_paths]_vars

\* the same for the right arrow alone
C15_RightArrowSkips ==
  [][( /\ navpc = "key"
       /\ key_pressed \in RightKeys
       /\ key_pressed \notin {save_key_code, delete_key_code} )
     => /\ history' = DequeAppend(history, CurrentPath)
        /\ current_image_index' = current_image_index + 1
        /\ image_paths' = image_paths]_vars

\* a step of the viewer that moves the file under the cursor: a Keep or a
\* Delete whose move succeeds
MovesFile == navpc = "key" /\ image_paths' # image_paths

\* what a Keep or Delete does to history, cursor and path list
OneEntryOneSlot ==
  /\ history' = DequeAppend(history, CurrentPath)
  /\ current_image_index' = current_image_index + 1
  /\ Len(image_paths') = Len(image_paths)
  /\ image_paths'[current_image_index + 1]
       \in {KeptPath(CurrentPath), DeletedPathNoCounter(CurrentPath)}
  /\ \A i \in 1..Len(image_paths) :
       i # current_image_index + 1 => image_paths'[i] = image_paths[i]

\* C16: a Keep or Delete whose move succeeds appends exactly one entry, the
\* path before the move, to the history, overwrites the slot under the
\* cursor and no other, keeps the length of the list and moves the cursor
\* forward by exactly one, whatever keys save and delete are bound to.
C16_KeepDeleteOneStep ==
  [][MovesFile => OneEntryOneSlot]_vars

\* the same when neither save nor delete is bound to the right arrow
C16_KeepDeleteOffTheArrow ==
  [][(MovesFile /\ save_key_code \notin RightKeys
                /\ delete_key_code \notin RightKeys) => OneEntryOneSlot]_vars

\* C17: once Quit was pressed the BackgroundProcessor is stopped (running
\* is false) and the navigation takes no further step: no get_image, no
\* start() of a window, no change of cursor, history or path list.
C17_QuitIsFinal ==
  /\ [](navpc = "aborted" => ~running)
  /\ [][navpc = "aborted" => UNCHANGED <<navVars, winVars>>]_vars

\* Quit was pressed in the middle of the list, after some images were
\* passed
C17_Witness ==
  /\ navpc = "aborted"
  /\ ~running
  /\ history # <<>>
  /\ current_image_index > NavChunkSize
  /\ current_image_index < Len(image_paths)

\* C18: a Keep or Delete whose file move fails leaves history, cursor and
\* path list as they were before the key was pressed.
C18_FailedMoveNotRecorded ==
  [][(navpc # "crashed" /\ navpc' = "crashed")
       => /\ history' = history
          /\ current_image_index' = current_image_index
          /\ image_paths' = image_paths]_vars

(***************************************************************************)
(* Claims about the BackgroundProcessor.                                   *)
(***************************************************************************)
\* C3: get_image returns a buffer, never None, for a path whose file can be
\* decoded, whichever way it returns (map, ready-queue, decode in place),
\* before any start, while workers run and after stop.
C3_GetImageReturnsBuffer ==
  (lastReturn.via # "none" /\ Decodable(lastReturn.path)) => lastReturn.img # None

\* get_image has decoded a readable path in place and returned its buffer
\* while a worker thread is in the middle of decoding the same path
C3_Witness ==
  /\ lastReturn.via = "decode"
  /\ Decodable(lastReturn.path)
  /\ lastReturn.img # None
  /\ \E t \in DOMAIN workers :
       workers[t].pc = "decoding" /\ workers[t].path = lastReturn.path

\* C4: neither get_image nor a worker begins a decode of a path that has an
\* entry in the map at that moment.
C4_NoSecondDecode ==
  [][/\ (cl.pc # "decode" /\ cl'.pc = "decode")
          => cl'.path \notin DOMAIN processed_images
     /\ \A t \in DOMAIN workers :
          (workers[t].pc # "decoding" /\ workers'[t].pc = "decoding")
            => workers'[t].path \notin DOMAIN processed_images]_vars

\* the window of the start() before the last one, and of the last one with
\* its next window
WindowA == Range(ChunkOf(lastStarts[Len(lastStarts) - 1]))
WindowB == Range(current_chunk) \cup Range(next_chunk)

\* C5: after start(A) and start(B) with B and B's next window disjoint from
\* A, once start(B) has returned and the worker it started has run a cycle,
\* and no get_image was called since, the map has no entry for a path of A.
C5_NoEntryOfOldWindow ==
  ( /\ Len(lastStarts) >= 2
    /\ cl.op # "start"
    /\ ~getSince
    /\ workers[processing_thread].cycled
    /\ WindowA \cap WindowB = {} )
  => DOMAIN processed_images \cap WindowA = {}

\* C9: a worker begins the decode of a path it took from the next window only
\* when every path of the current window has an entry in the map.
C9_CurrentBeforeNext ==
  [][\A t \in DOMAIN workers :
       (workers[t].pc # "decoding" /\ workers'[t].pc = "decoding"
          /\ workers'[t].path \in Range(next_chunk) \ Range(current_chunk))
         => Range(current_chunk) \subseteq DOMAIN processed_images]_vars

\* C10: get_image never waits in its put-back loop on a full ready-queue;
\* no other thread ever takes an item out of the queue.
C10_GetImageNeverBlocked ==
  ~(cl.pc = "putback" /\ cl.temp # <<>> /\ Len(image_queue) >= QueueMax)

\* C11: stop() returns from every state it is called in (before any start,
\* with live workers, after a stop, with the worker gone), and at its return
\* running is false and the ready-queue is empty, after a first stop() and
\* after a stop() that follows a stop() alike; the map, the windows and the
\* thread handle are as they were when the call reached its drain.
C11_StopIdempotent ==
  [][(cl.op = "stop" /\ cl.pc = "drain" /\ cl'.pc = "ready")
       => /\ running' = FALSE
          /\ image_queue' = <<>>
          /\ lastReturn'.stops \in {1, 2}
          /\ UNCHANGED <<processed_images, current_chunk, next_chunk,
                         processing_thread, workers>>]_vars

\* stop() was called before any start() and returned
C11_WitnessNeverStarted ==
  /\ cl.pc = "ready" /\ lastReturn.stops = 1 /\ nStarts = 0

\* a second stop() in a row has returned while a worker thread is still
\* alive and the map holds entries
C11_Witness ==
  /\ cl.pc = "ready"
  /\ lastReturn.stops = 2
  /\ ~running
  /\ image_queue = <<>>
  /\ processed_images # EmptyMap
  /\ \E t \in DOMAIN workers : workers[t].pc # "exited"

\* a worker is inside a process_image call that fails
DecodeFailing ==
  \E t \in DOMAIN workers :
    workers[t].pc = "decoding" /\ process_image(workers[t].path) = None

\* the readable paths of the two windows that have no entry in the map
Remaining ==
  { p \in Range(current_chunk) \cup Range(next_chunk) :
      Decodable(p) /\ p \notin DOMAIN processed_images }

\* a worker thread leaves its loop only while running is false
C12_ExitOnlyWhenStopped ==
  [][\A t \in DOMAIN workers :
       (workers[t].pc # "exited" /\ workers'[t].pc = "exited") => ~running]_vars

\* C12: a failed image does not end the worker's work: with running left
\* true, once a decode of the worker has failed, every readable path of the
\* two windows that is still unprocessed gets its entry in the map.
C12_FailedImageThenRest ==
  \A p \in Range(BPAllPaths) :
    (DecodeFailing /\ p \in Remaining) ~> (p \in DOMAIN processed_images)

\* C13: when a worker's process_image call returns with a failure, for a
\* path of the current or of the next window, the map has from then on an
\* entry None (a tombstone) under that path.
C13_FailedDecodeTombstone ==
  [][\A t \in DOMAIN workers :
       ( /\ workers[t].pc = "decoding"
         /\ workers'[t].pc # "decoding"
         /\ process_image(workers[t].path) = None )
       => /\ workers[t].path \in DOMAIN processed_images'
          /\ processed_images'[workers[t].path] = None]_vars

(***************************************************************************)
(* Claims about the decoder (specifications SpecResize and SpecCache).     *)
(***************************************************************************)
\* C6: the resize of the decoder returns a buffer of exactly max_height rows
\* by max_width columns, the scaled picture centered in it, the rest black.
C6_ResizeFillsTarget ==
  rz.fn # "none" =>
    /\ rz.out.ok
    /\ rz.out.rows = rz.max_height
    /\ rz.out.cols = rz.max_width
    /\ rz.out.top = (rz.max_height - rz.out.crows) \div 2
    /\ rz.out.left = (rz.max_width - rz.out.ccols) \div 2

\* the buffer stored for the path and modification time of the last lookup
StoredForLookup == stored[<<lastLookup.path, lastLookup.mtime>>]

\* what a lookup makes of a stored buffer: the buffer itself when it fits the
\* display size, else the buffer scaled down to fit
FittedToDisplay(image_data, max_width, max_height) ==
  IF image_data.shape.rows > max_height \/ image_data.shape.cols > max_width
  THEN [image_data EXCEPT !.shape = resize_image_to_fit(image_data.shape.cols,
                                      image_data.shape.rows, max_width, max_height)]
  ELSE image_data

C19_NeverRaises ==
  lastLookup.called =>
    /\ lastLookup.out # Raised
    /\ lastLookup.unreadable => lastLookup.out = NoPixels

\* a .nef that was decoded and cached has been deleted; the next call with
\* use_cache fails in get_cache_path and returns None
C19_Witness ==
  /\ lastLookup.called
  /\ lastLookup.use_cache
  /\ EndsWithNef(lastLookup.path)
  /\ lastLookup.mtime = 0
  /\ lastLookup.out = NoPixels
  /\ \E m \in Mtimes : <<lastLookup.path, m>> \in DOMAIN stored

\* C20: when the cache file of the path exists and cannot be read,
\* process_image goes on to decode the file and returns what that decode
\* gives, not the read error.
C20_BadEntryIsMiss ==
  (lastLookup.called /\ lastLookup.bad_entry) =>
    /\ ~lastLookup.hit
    /\ lastLookup.out # Raised
    /\ lastLookup.out = OuterExcept(DecodeNef(lastLookup.path, lastLookup.max_width,
                                              lastLookup.max_height))

\* a damaged cache file was met, the file was decoded afresh, the buffer
\* returned, and the cache file written anew
C20_Witness ==
  /\ lastLookup.called
  /\ lastLookup.bad_entry
  /\ lastLookup.out \notin {NoPixels, Raised}
  /\ lastLookup.out.src = lastLookup.path
  /\ Unpickles(cache_files[get_cache_path(lastLookup.path, lastLookup.mtime)])

(***************************************************************************)
(* Claims about the key bindings of the viewer                             *)
(***************************************************************************)
\* C21: while the navigation loop of viewer.py runs, the key code of Save
\* differs from the key code of Delete and neither is a navigation key code
\* (left arrow, right arrow, Esc), for every pair of key names the
\* validation of ui/app.py lets through.
C21_KeyCodesDistinctUnreserved ==
  navpc = "wait" =>
  /\ save_key_code # delete_key_code
  /\ {save_key_code, delete_key_code} \cap (LeftKeys \cup RightKeys \cup EscKeys) = {}

(***************************************************************************)
(* Claims about the LocalizationService (specification SpecLang).          *)
(***************************************************************************)
\* C23: switch_language always changes the language code, and two calls in
\* a row bring back the code that was current before the first of them.
C23_SwitchIsInvolution ==
  /\ Len(lang_trail) >= 1 => current_language_code # lang_trail[Len(lang_trail)]
  /\ Len(lang_trail) = 2 => current_language_code = lang_trail[1]

\* two switches were made from English, and texts are English again
C23_Witness ==
  /\ lang_trail = <<ENGLISH, DANISH>>
  /\ current_language_code = ENGLISH
  /\ last_text = <<ENGLISH, "window_title">>

(***************************************************************************)
(* Claims about the file moves (specification SpecMove).                   *)
(***************************************************************************)
\* a name with one more counter than the name the file had
Suffixed(name, new_name) ==
  /\ Len(new_name) = Len(name) + 1
  /\ SubSeq(new_name, 1, Len(name)) = name

\* C22: no Keep or Delete move overwrites a file: the name moved to did not
\* exist before the move, no picture is lost by it, and when the file's
\* name was taken in the destination directory the new name is that name
\* with a counter appended.
C22_NoMoveOverwrites ==
  lastMove.by # "none" =>
    /\ lastMove.lost = {}
    /\ lastMove.free
    /\ lastMove.clash => Suffixed(lastMove.src[2], lastMove.dst[2])

\* the same for the two moves that run the counter loop
C22_CounterLoopMoves ==
  lastMove.by \in {"move_image_to_dir_with_date", "_handle_delete_action"} =>
    /\ lastMove.lost = {}
    /\ lastMove.free
    /\ lastMove.clash => Suffixed(lastMove.src[2], lastMove.dst[2])

\* a counter-loop move met a taken name that was not the file's own
C22_CounterLoopWitness ==
  /\ lastMove.by = "_handle_delete_action"
  /\ lastMove.clash
  /\ lastMove.src[1] # lastMove.dst[1]
  /\ lastMove.dst[2] = <<"a", 2>>

(***************************************************************************)
(* Claims about the worker threads across restarts (specification Spec).   *)
(***************************************************************************)
\* the worker threads that have not left _process_images
LiveWorkers == {t \in DOMAIN workers : workers[t].pc # "exited"}

\* C24: while start() changes the windows, rebuilds the map and clears the
\* queue (lines 65-97), every worker started before has left its loop.
C24_StartQuiescesWorker ==
  (cl.op = "start" /\ cl.pc \in {"assign", "next", "filter", "spawn"}) =>
    LiveWorkers = {}

\* C25: at every moment at most one worker thread runs the worker loop, and
\* a worker that is no longer the one in self.processing_thread never
\* passes the loop test "while self.running" again.
C25_SingleWorker ==
  /\ [](Cardinality(LiveWorkers) <= 1)
  /\ [][\A t \in DOMAIN workers :
          t # processing_thread =>
            ~(workers[t].pc = "loop" /\ workers'[t].pc \notin {"loop", "exited"})]_vars

\* the second half of C25 alone
C25_OldWorkerStopsLooping ==
  [][\A t \in DOMAIN workers :
       t # processing_thread =>
         ~(workers[t].pc = "loop" /\ workers'[t].pc \notin {"loop", "exited"})]_vars

(***************************************************************************)
(* Claims about the order in which the worker fills the windows            *)
(* (specifications SpecWindow and Spec).                                   *)
(***************************************************************************)
\* every path of the window has an entry in the map
Filled(chunk) == \A p \in Range(chunk) : p \in DOMAIN processed_images

\* C26: a worker left running, with no stop, restart or get_image and with
\* every file readable, eventually has an entry in the map for every path
\* of the current window and then for every path of the next window,
\* wherever the .nef paths stand in the windows.
C26_WindowsGetFilled ==
  (nStarts = 1 /\ corrupt = {}) ~> (Filled(current_chunk) /\ Filled(next_chunk))

\* the same when no window lists a .nef path behind another path
C26_NefLeadingGetsFilled ==
  (nStarts = 1 /\ corrupt = {} /\ nef = {}) ~>
    (Filled(current_chunk) /\ Filled(next_chunk))

\* the manager's windows that list the path
WindowsOf(p) == {w \in {current_chunk, next_chunk} : p \in Range(w)}

\* the window lists a .nef path that has no entry in the map
NefPending(w) == \E q \in Range(w) : IsNef(q) /\ q \notin DOMAIN processed_images

\* C27: when a worker starts the decode of a path of a window that still
\* lists an undecoded .nef path, the path it decodes is a .nef path.
C27_RawBeforeOthers ==
  [][\A t \in DOMAIN workers :
       (workers[t].pc = "checked" /\ workers'[t].pc = "decoding") =>
         \A w \in WindowsOf(workers[t].path) :
           NefPending(w) => IsNef(workers[t].path)]_vars

\* the ordinary case: a worker decodes the .jpg of a window whose .nef has
\* its entry
C27_JpgAfterNef ==
  \E t \in DOMAIN workers :
    /\ workers[t].pc = "decoding"
    /\ ~IsNef(workers[t].path)
    /\ workers[t].path \in Range(current_chunk)
    /\ \E q \in Range(current_chunk) : IsNef(q) /\ q \in DOMAIN processed_images

(***************************************************************************)
(* Claims about the in-memory map and the windows (specification Spec).    *)
(***************************************************************************)
\* C28: once a start() has returned, and outside a later start() call,
\* every key of the map is a path of the current or of the next window.
C28_MapWithinWindows ==
  (nStarts >= 1 /\ cl.op # "start") =>
    DOMAIN processed_images \subseteq (Range(current_chunk) \cup Range(next_chunk))

\* the same for what the workers store when get_image is never called and
\* start() is called once
C28_OneStartNoGet ==
  (nStarts >= 1 /\ cl.op # "start" /\ ~getSince /\ Len(workers) = 1) =>
    DOMAIN processed_images \subseteq (Range(current_chunk) \cup Range(next_chunk))

(***************************************************************************)
(* Claims about the windows handed over by the viewers (specifications     *)
(* SpecNav and SpecViewer).                                                *)
(***************************************************************************)
\* C29: each start() the navigation loop issues, for the window beginning
\* at index chunk_start, leaves as next window the paths
\* chunk_start + chunk_size .. min(chunk_start + 2 * chunk_size, len) of the
\* path list, which is empty exactly when chunk_start + chunk_size >= len.
C29_NextWindowIsNextSlice ==
  [][(navpc = "loop" /\ navpc' = "chunk") =>
       LET s == chunk_start'
           n == Len(image_paths')
       IN /\ next_chunk' = SubSeq(image_paths', s + NavChunkSize + 1,
                                  Min(s + 2 * NavChunkSize, n))
          /\ (next_chunk' = <<>>) <=> (s + NavChunkSize >= n)]_vars

\* a start() for the last chunk but one has returned: the next window is
\* the last chunk, shorter than chunk_size
C29_Witness ==
  /\ navpc = "chunk"
  /\ running
  /\ chunk_start + 2 * NavChunkSize > NPaths
  /\ Len(next_chunk) = NPaths - chunk_start - NavChunkSize
  /\ Len(next_chunk) > 0
  /\ Len(next_chunk) < NavChunkSize
  /\ next_chunk = SubSeq(image_paths, chunk_start + NavChunkSize + 1, NPaths)

\* the same for the start() calls of core/viewer.py
C29_ViewerNextSlice ==
  [][(navpc = "loop" /\ navpc' = "chunk") =>
       LET s == chunk_start'
           n == Len(image_paths')
       IN /\ next_chunk' = SubSeq(image_paths', s + ViewerChunkSize + 1,
                                  Min(s + 2 * ViewerChunkSize, n))
          /\ (next_chunk' = <<>>) <=> (s + ViewerChunkSize >= n)]_vars

(***************************************************************************)
(* Claims about get_image's synchronous decode (specification Spec).       *)
(***************************************************************************)
\* C30: when get_image has decoded a path itself and returns, the result of
\* that decode, a buffer or None, is in the map under the path.
C30_SyncDecodeStored ==
  lastReturn.via = "decode" =>
    /\ lastReturn.path \in DOMAIN processed_images
    /\ processed_images[lastReturn.path] = lastReturn.img

\* the same for a decode that yields a buffer
C30_SyncBufferStored ==
  (lastReturn.via = "decode" /\ lastReturn.img # None) =>
    /\ lastReturn.path \in DOMAIN processed_images
    /\ processed_images[lastReturn.path] = lastReturn.img

(***************************************************************************)
(* Claims about get_image's search of the ready-queue (specification Spec).*)
(***************************************************************************)
Count(s, x) == Cardinality({i \in 1..Len(s) : s[i] = x})

\* the entries get_image is answerable for: those in the queue and those it
\* holds in temp_queue
InHand(q, c) == q \o c.temp

\* C31: while get_image runs, every entry of the queue or of temp_queue is
\* still in the queue or in temp_queue after each step, except that the
\* search removes at most once an entry of the requested path, which it
\* stores in the map; temp_queue is empty when get_image returns, so every
\* entry taken out is back in the queue then.
C31_ScanLosesNoBuffer ==
  [][cl.op = "get" =>
       /\ \A item \in Range(InHand(image_queue, cl)) :
            LET before == Count(InHand(image_queue, cl), item)
                after  == Count(InHand(image_queue', cl'), item)
            IN \/ after >= before
               \/ /\ after = before - 1
                  /\ item[1] = cl.path
                  /\ ~cl.found /\ cl'.found
                  /\ cl.path \in DOMAIN processed_images'
                  /\ processed_images'[cl.path] = item[2]
       /\ cl'.op # "get" => cl.temp = <<>>]_vars

\* get_image searched a queue that held another path's buffer, found no
\* entry of its own path, and goes on to decode with that buffer in the
\* queue and its temp_queue empty
C31_PutBackWitness ==
  /\ cl.op = "get" /\ cl.pc = "decode"
  /\ cl.temp = <<>>
  /\ image_queue # <<>>
  /\ \A i \in 1..Len(image_queue) : image_queue[i][1] # cl.path
  /\ \A w \in 1..Len(workers) : workers[w].pc \in {"exited", "idle"}

\* the buffer a decode of path p yields
DecodeOf(p) == <<"img", p>>

\* C32: every buffer in the map or in the queue is the decode of the path it
\* is stored under, and every buffer get_image returns is the decode of the
\* path it was asked for; workers left over by a timed-out join and a
\* restart are among the threads that store.
C32_BufferBelongsToPath ==
  /\ \A p \in DOMAIN processed_images :
       processed_images[p] # None => processed_images[p] = DecodeOf(p)
  /\ \A i \in 1..Len(image_queue) :
       image_queue[i][2] # None => image_queue[i][2] = DecodeOf(image_queue[i][1])
  /\ (lastReturn.via # "none" /\ lastReturn.img # None)
       => lastReturn.img = DecodeOf(lastReturn.path)

\* get_image returned a buffer it found in the queue, after a restart whose
\* join timed out: a worker of an earlier start() is still alive
C32_Witness ==
  /\ lastReturn.via = "queue" /\ lastReturn.img = DecodeOf(lastReturn.path)
  /\ nStarts >= 2
  /\ \E t \in 1..Len(workers) : t # processing_thread /\ workers[t].pc # "exited"

(***************************************************************************)
(* Claims about Back and the cursor (specifications SpecNav, SpecViewer).  *)
(***************************************************************************)
\* the first index of the window that contains index i
WindowStartOf(i) == (i \div NavChunkSize) * NavChunkSize

\* the navigation is about to call get_image for the path under the cursor
\* (image_viewer.py lines 154-162)
AtGetImage == navpc = "chunk" /\ InChunk

\* C33: whenever the navigation calls get_image for the path under the
\* cursor, the latest start() of the manager was for the window that
\* contains the cursor.
C33_GetImageInLoadedWindow ==
  AtGetImage => chunk_start = WindowStartOf(current_image_index)

C34_ViewerBackNoOp ==
  [][(ViewerBack /\ Len(history) = 0) =>
       /\ UNCHANGED <<current_image_index, image_paths, history, chunk_start,
                      chunk_end, running, current_chunk, next_chunk>>
       /\ navpc' = "chunk" /\ ViewerInChunk'
       /\ NavGetImage(CurrentPath)' # None]_vars

(***************************************************************************)
(* _process_chunk called on its own, the way TestImageNavigation does      *)
(* (tests/test_image_processing.py lines 89-119): the cursor and the       *)
(* history are set by the caller, get_image always yields an image, and    *)
(* the only keys waitKeyEx yields are left arrows, BacksFed of them.       *)
(***************************************************************************)
\* mock_waitkey.side_effect = [65361, 65361]
BacksFed == 2

\* the (chunk_start, chunk_end) a call passes
ChunkCalls ==
  {<<w * NavChunkSize, Min((w + 1) * NavChunkSize, NPaths)>> :
     w \in 0..((NPaths - 1) \div NavChunkSize)}

\* lines 110-111 and 115: the cursor is set, the history is cleared or is
\* what skipping up to the cursor left, and _process_chunk is entered
InitChunk ==
  /\ image_paths = [i \in 1..NPaths |-> PathOf(i)]
  /\ \E k \in 0..(NPaths - 1), cleared \in BOOLEAN :
       /\ current_image_index = k
       /\ history = IF cleared THEN <<>>
                    ELSE LastN(SubSeq(image_paths, 1, k), MaxHistory)
       /\ backRun = [from |-> k, cleared |-> history = <<>>, n |-> 0]
  /\ \E call \in ChunkCalls : chunk_start = call[1] /\ chunk_end = call[2]
  /\ output_dir = TRUE
  /\ corrupt = {}
  /\ fileDate = [f \in Files |-> 1]
  /\ navpc = "chunk"
  /\ nMoves = 0
  /\ onlySkips = TRUE
  /\ prompts = 0
  /\ skipStreak = <<>>
  /\ lastAct = NoAct
  /\ lastBack = NoAct
  /\ nef = {}
  /\ caller = [starts |-> 0, gets |-> FALSE]
  /\ Constructed
  /\ DecoderIdle
  /\ DefaultKeys
  /\ disk = EmptyMap
  /\ lastMove = NoMove
  /\ LangIdle

\* a left arrow from the mock, while it has one left
ChunkBack ==
  /\ backRun.n < BacksFed
  /\ NavBackStep
  /\ backRun' = [backRun EXCEPT !.n = backRun.n + 1]
  /\ UNCHANGED <<bpVars, decVars, keyVars, moveVars, langVars>>

NextChunk ==
  \/ NavShow
  \/ ChunkBack
  \/ NavChunkReturn

SpecChunk == InitChunk /\ [][NextChunk]_vars

\* C35: when _process_chunk is entered with the cursor at k > 1 and an empty
\* history, then after two left arrows the cursor is k - 2 and the history
\* is empty.
C35_TwoBacksStepTwo ==
  (backRun.n = BacksFed /\ backRun.cleared /\ backRun.from > 1)
    => /\ current_image_index = backRun.from - 2
       /\ Len(history) = 0

\* what the code does instead: the cursor is where it was
C35_TwoBacksStay ==
  (backRun.n = BacksFed /\ backRun.cleared)
    => /\ current_image_index = backRun.from
       /\ Len(history) = 0

\* C36: the cursor is between 0 and the length of the path list, and where
\* the list is indexed with it (get_image for the path under the cursor, the
\* image shown while a key is awaited and handled) it is below the length.
C36_CursorInRange ==
  /\ 0 <= current_image_index
  /\ current_image_index <= Len(image_paths)
  /\ (AtGetImage \/ navpc \in {"wait", "key"})
       => current_image_index < Len(image_paths)

\* the fall-back of Back has stepped the cursor back by one: the path popped
\* was no longer in the list, and the image before the acted-on one is up
C36_FallBackWitness ==
  /\ AtGetImage
  /\ lastBack # NoAct
  /\ IndexOf(image_paths, lastBack.path) < 0
  /\ current_image_index = lastBack.idx
  /\ current_image_index < Len(image_paths)

(***************************************************************************)
(* A run to the end: the navigation of process_images (image_viewer.py     *)
(* lines 96-140) over the BackgroundProcessor with its worker threads,     *)
(* when the user only advances.  The cursor is current_image_index, the    *)
(* list is BPAllPaths; start() is called on entering a chunk, get_image    *)
(* for the path under the cursor, a key (or a None buffer) advances the    *)
(* cursor, and stop() is called when the list is through.  Every thread    *)
(* is scheduled again and again and the user keeps pressing keys: a step   *)
(* of a thread that stays possible is taken.                               *)
(***************************************************************************)
AdvChunkIdx == current_image_index \div BPChunkSize
AdvCurrent == BPAllPaths[current_image_index + 1]

\* get_image has returned for the path under the cursor
AdvReturned == lastReturn.via # "none" /\ lastReturn.path = AdvCurrent

\* lines 97-129: the chunk of the cursor has not been started yet
AdvStart ==
  /\ current_image_index < NBPPaths
  /\ nStarts = AdvChunkIdx
  /\ ClientCallStart(AdvChunkIdx)

\* _process_chunk lines 154-162
AdvGetImage ==
  /\ current_image_index < NBPPaths
  /\ nStarts = AdvChunkIdx + 1
  /\ ~AdvReturned
  /\ ClientCallGet(AdvCurrent)

\* lines 172-175 and 190-201: a None buffer, or the image is shown and the
\* user skips, keeps or deletes it; the cursor advances
AdvKey ==
  /\ cl.pc = "ready"
  /\ current_image_index < NBPPaths
  /\ nStarts = AdvChunkIdx + 1
  /\ AdvReturned
  /\ current_image_index' = current_image_index + 1
  /\ UNCHANGED <<image_paths, history, chunk_start, chunk_end, output_dir,
                 navpc, corrupt, fileDate, nMoves, onlySkips, prompts,
                 skipStreak, lastAct, lastBack, winVars, bpOnly>>

\* lines 136-137: all chunks processed, background_processor.stop()
AdvStop ==
  /\ current_image_index = NBPPaths
  /\ lastReturn.stops = 0
  /\ ClientCallStop

\* process_images has returned
AdvDone ==
  /\ current_image_index = NBPPaths
  /\ cl.pc = "ready"
  /\ lastReturn.stops > 0

AdvClient ==
  \/ AdvStart
  \/ AdvGetImage
  \/ AdvKey
  \/ AdvStop
  \/ ClientJoin
  \/ ClientDrain
  \/ ClientStartAssign
  \/ ClientStartNext
  \/ ClientStartFilter
  \/ ClientStartSpawn
  \/ ClientScan
  \/ ClientPutBack
  \/ ClientAfterPutBack
  \/ ClientDecoded

AdvWorker(t) ==
  /\ t \in DOMAIN workers
  /\ \/ WorkerExit(t)
     \/ WorkerPick(t)
     \/ WorkerWake(t)
     \/ WorkerCheck(t)
     \/ WorkerBeginDecode(t)
     \/ WorkerDecoded(t)
     \/ WorkerQueueCheck(t)
     \/ WorkerPut(t)

InitAdvance ==
  /\ Init
  /\ caller = Viewing

NextAdvance ==
  \/ AdvClient
  \/ \E t \in 1..MaxStarts : AdvWorker(t)

AdvScheduled ==
  /\ WF_vars(AdvClient)
  /\ \A t \in 1..MaxStarts : WF_vars(AdvWorker(t))

SpecAdvance == InitAdvance /\ [][NextAdvance]_vars /\ AdvScheduled

\* C37: a run in which the user only advances comes to its end: the cursor
\* is at the length of the list, stop() has returned and running is false.
C37_AdvancingReachesDone ==
  <>(AdvDone /\ ~running)

\* the navigation thread waits in get_image's put-back on a full queue, with
\* images left to go through
C37_StuckInPutBack ==
  /\ cl.pc = "putback" /\ cl.temp # <<>>
  /\ Len(image_queue) >= QueueMax
  /\ current_image_index < NBPPaths

\* the worker's put (line 219) waits: the queue is full
BlockedOnPut(t) == workers[t].pc = "put" /\ Len(image_queue) >= QueueMax

\* C38: no worker ever waits in its put on a full queue: a push that meets a
\* full queue is skipped.
C38_WorkerNeverBlocks ==
  \A t \in DOMAIN workers : ~BlockedOnPut(t)

\* the interleaving of the claim: the only worker found the queue not full
\* (line 218), get_image then put an entry back (lines 152-154) and filled
\* the queue, and the worker's put waits
C38_BlockedByPutBack ==
  /\ Len(workers) = 1
  /\ BlockedOnPut(1)
  /\ cl.op = "get" /\ cl.pc = "putback" /\ cl.temp = <<>>
  /\ Len(image_queue) = 1
  /\ image_queue[1][1] # workers[1].path

\* the steps from a skip up to and including the Back that follows it with
\* no other action between: the skip itself, and every step taken while the
\* skip is the last action
SkipThenBackSpan ==
  \/ NavSkip
  \/ lastAct.kind = "skip" /\ (lastAct'.kind = "skip" \/ NavBack)

\* what the pair does to the history and the cursor: the Back pops the
\* entry the skip appended and puts the cursor where the skip was made; the
\* pop of the append is the history before the skip, or that history
\* without its oldest entry when it was full
SkipThenBackUndoes ==
  /\ [](navpc = "wait" =>
          DequePop(DequeAppend(history, CurrentPath)) =
            IF Len(history) < MaxHistory THEN history ELSE Tail(history))
  /\ [][NavSkip => /\ history' = DequeAppend(history, CurrentPath)
                   /\ lastAct' = [kind |-> "skip", path |-> CurrentPath,
                                  idx |-> current_image_index, gap |-> FALSE]]_vars
  /\ [][(NavBack /\ lastAct.kind = "skip") =>
          /\ DequeTop(history) = lastAct.path
          /\ history' = DequePop(history)
          /\ current_image_index' = lastAct.idx
          /\ image_paths'[current_image_index' + 1] = lastAct.path]_vars

\* C39 as stated: a skip followed immediately by a Back restores the cursor
\* and the history (less the oldest entry when the history was full), and
\* the path list is the same throughout.
C39_SkipBackRestoresAll ==
  /\ SkipThenBackUndoes
  /\ [][SkipThenBackSpan => image_paths' = image_paths]_vars

\* C39, amended: a skip followed immediately by a Back restores the cursor
\* and the history (less the oldest entry when the history was full); the
\* path list is the same except that a window entered by the skip has been
\* sorted by date in place: the paths outside that window keep their
\* positions and the window holds the same paths.
C39_SkipBackRestores ==
  /\ SkipThenBackUndoes
  /\ [][SkipThenBackSpan =>
          \/ image_paths' = image_paths
          \/ /\ navpc = "loop" /\ navpc' = "chunk"
             /\ Len(image_paths') = Len(image_paths)
             /\ \A i \in 1..Len(image_paths) :
                  (i <= chunk_start' \/ i > chunk_end')
                    => image_paths'[i] = image_paths[i]
             /\ Range(Slice(image_paths', chunk_start', chunk_end'))
                  = Range(Slice(image_paths, chunk_start', chunk_end'))]_vars

\* a Back has undone a skip made with a full history: the cursor is where
\* the skip was made and the history is one entry short of full
C39_FullHistoryWitness ==
  /\ lastBack.kind = "skip"
  /\ current_image_index = lastBack.idx
  /\ Len(history) = MaxHistory - 1
  /\ history[1] # image_paths[1]
  /\ \A i \in 1..Len(history) : history[i] = image_paths[i + 1]

====
